---------------------------- MODULE Spec2Model ----------------------------
(***************************************************************************)
(* PMF Studio: the scoring core (pmf_score_engine.py) and the quality /    *)
(* display-mode pipeline of app.py, as a state machine.                    *)
(*                                                                         *)
(* Python floats are IEEE-754 binary64.  They are modelled exactly: a      *)
(* float is a sign, a 53-bit mantissa and an exponent, the mantissa held   *)
(* as a little-endian sequence of limbs because it does not fit a TLC      *)
(* integer.  Every arithmetic operation computes the exact result and      *)
(* rounds it once, to nearest, ties to even, as the hardware does.         *)
(***************************************************************************)
EXTENDS Integers, Sequences, FiniteSets, TLC

(***************************************************************************)
(* Natural numbers of any size: little-endian limbs, no leading zero limb. *)
(***************************************************************************)
LimbBits == 13
LimbBase == 2^LimbBits
MantBits == 53

Min(a, b) == IF a <= b THEN a ELSE b
Max(a, b) == IF a >= b THEN a ELSE b

RECURSIVE BNorm(_)
BNorm(a) ==
  IF a = <<>> THEN <<>>
  ELSE IF a[Len(a)] = 0 THEN BNorm(SubSeq(a, 1, Len(a) - 1)) ELSE a

RECURSIVE BFromNat(_)
BFromNat(n) ==
  IF n = 0 THEN <<>> ELSE <<n % LimbBase>> \o BFromNat(n \div LimbBase)

RECURSIVE BToNat(_)
BToNat(a) == IF a = <<>> THEN 0 ELSE Head(a) + LimbBase * BToNat(Tail(a))

Limb(a, i) == IF i <= Len(a) THEN a[i] ELSE 0

RECURSIVE BAddFrom(_, _, _, _)
BAddFrom(a, b, i, c) ==
  IF i > Len(a) /\ i > Len(b)
  THEN (IF c = 0 THEN <<>> ELSE <<c>>)
  ELSE LET t == Limb(a, i) + Limb(b, i) + c
       IN  <<t % LimbBase>> \o BAddFrom(a, b, i + 1, t \div LimbBase)

BAdd(a, b) == BAddFrom(a, b, 1, 0)

\* a - b for a >= b
RECURSIVE BSubFrom(_, _, _, _)
BSubFrom(a, b, i, br) ==
  IF i > Len(a) THEN <<>>
  ELSE LET t == a[i] - Limb(b, i) - br
       IN  IF t < 0 THEN <<t + LimbBase>> \o BSubFrom(a, b, i + 1, 1)
           ELSE <<t>> \o BSubFrom(a, b, i + 1, 0)

BSub(a, b) == BNorm(BSubFrom(a, b, 1, 0))

RECURSIVE BCmpFrom(_, _, _)
BCmpFrom(a, b, i) ==
  IF i = 0 THEN 0
  ELSE IF a[i] < b[i] THEN -1
  ELSE IF a[i] > b[i] THEN 1
  ELSE BCmpFrom(a, b, i - 1)

\* -1, 0, 1 as a < b, a = b, a > b
BCmp(a, b) ==
  IF Len(a) < Len(b) THEN -1
  ELSE IF Len(a) > Len(b) THEN 1
  ELSE BCmpFrom(a, b, Len(a))

RECURSIVE BMulSmallFrom(_, _, _, _)
BMulSmallFrom(a, k, i, c) ==
  IF i > Len(a)
  THEN (IF c = 0 THEN <<>> ELSE <<c>>)
  ELSE LET t == a[i] * k + c
       IN  <<t % LimbBase>> \o BMulSmallFrom(a, k, i + 1, t \div LimbBase)

\* a * k for 0 <= k <= LimbBase
BMulSmall(a, k) == IF k = 0 THEN <<>> ELSE BMulSmallFrom(a, k, 1, 0)

ShiftLimbs(a, n) == IF a = <<>> THEN <<>> ELSE [i \in 1..n |-> 0] \o a

RECURSIVE BMulFrom(_, _, _)
BMulFrom(a, b, j) ==
  IF j > Len(b) THEN <<>>
  ELSE BAdd(ShiftLimbs(BMulSmall(a, b[j]), j - 1), BMulFrom(a, b, j + 1))

BMul(a, b) == BMulFrom(a, b, 1)

\* a * 2^k
BShl(a, k) == ShiftLimbs(BMulSmall(a, 2^(k % LimbBits)), k \div LimbBits)

RECURSIVE BDivSmallFrom(_, _, _, _)
BDivSmallFrom(a, d, i, r) ==
  IF i = 0 THEN <<>>
  ELSE LET cur == r * LimbBase + a[i]
       IN  BDivSmallFrom(a, d, i - 1, cur % d) \o <<cur \div d>>

\* a \div d for 0 < d <= LimbBase
BDivSmall(a, d) == BNorm(BDivSmallFrom(a, d, Len(a), 0))

\* a \div 2^k
BShr(a, k) ==
  LET n == k \div LimbBits
  IN  IF n >= Len(a) THEN <<>>
      ELSE BDivSmall(SubSeq(a, n + 1, Len(a)), 2^(k % LimbBits))

\* a % 2^k
BLow(a, k) == BSub(a, BShl(BShr(a, k), k))

RECURSIVE NatBits(_)
NatBits(n) == IF n = 0 THEN 0 ELSE 1 + NatBits(n \div 2)

BitLen(a) ==
  IF a = <<>> THEN 0 ELSE LimbBits * (Len(a) - 1) + NatBits(a[Len(a)])

BPow2(k) == BShl(<<1>>, k)

BIsOdd(a) == a /= <<>> /\ a[1] % 2 = 1

\* The integer nearest to n / 2^k, ties to even
BRoundUp(q, c, sticky) ==
  IF c = 1 \/ (c = 0 /\ (sticky \/ BIsOdd(q))) THEN BAdd(q, <<1>>) ELSE q

BRoundShr(n, k, sticky) ==
  IF k = 0 THEN n
  ELSE BRoundUp(BShr(n, k), BCmp(BLow(n, k), BPow2(k - 1)), sticky)

(***************************************************************************)
(* binary64: the value of [s, m, e] is (-1)^s * m * 2^e, with m of exactly *)
(* MantBits bits, or FZero.  The values of the model stay far from the     *)
(* subnormal and the overflow range, so the exponent is unbounded here.    *)
(***************************************************************************)
FZero == [s |-> 0, m |-> <<>>, e |-> 0]

\* (n + a positive fraction when sticky) * 2^e, rounded to nearest-even
\* q of MantBits bits, or of one more when rounding carried
FCarry(s, q, e) ==
  IF BitLen(q) > MantBits
  THEN [s |-> s, m |-> BShr(q, 1), e |-> e + 1]
  ELSE [s |-> s, m |-> q, e |-> e]

\* n /= 0 of L bits
FRoundBits(s, n, e, sticky, L) ==
  IF L <= MantBits
  THEN [s |-> s, m |-> BShl(n, MantBits - L), e |-> e - (MantBits - L)]
  ELSE FCarry(s, BRoundShr(n, L - MantBits, sticky), e + (L - MantBits))

FRound(s, n, e, sticky) ==
  IF n = <<>> THEN FZero ELSE FRoundBits(s, n, e, sticky, BitLen(n))

Abs(n) == IF n < 0 THEN -n ELSE n

\* float(n) for an int n
FromInt(n) == FRound(IF n < 0 THEN 1 ELSE 0, BFromNat(Abs(n)), 0, FALSE)

FNeg(x) == IF x.m = <<>> THEN x ELSE [x EXCEPT !.s = 1 - x.s]

\* x + y
\* a * 2^e of sign xs plus b * 2^e of sign ys; c compares a with b
FAddAligned(xs, ys, a, b, c, e) ==
  IF xs /= ys /\ c = 0 THEN FZero
  ELSE FRound(IF xs = ys \/ c = 1 THEN xs ELSE ys,
              IF xs = ys THEN BAdd(a, b)
              ELSE IF c = 1 THEN BSub(a, b) ELSE BSub(b, a),
              e, FALSE)

FAddAt(xs, ys, a, b, e) == FAddAligned(xs, ys, a, b, BCmp(a, b), e)

FAdd(x, y) ==
  IF x.m = <<>> THEN y
  ELSE IF y.m = <<>> THEN x
  ELSE FAddAt(x.s, y.s, BShl(x.m, x.e - Min(x.e, y.e)),
              BShl(y.m, y.e - Min(x.e, y.e)), Min(x.e, y.e))

\* x - y
FSub(x, y) == FAdd(x, FNeg(y))

\* x * y
FMul(x, y) ==
  IF x.m = <<>> \/ y.m = <<>> THEN FZero
  ELSE FRound((x.s + y.s) % 2, BMul(x.m, y.m), x.e + y.e, FALSE)

\* One limb of long division: for r < d, floor(r * LimbBase / d) and the remainder,
\* a bit at a time (n bits to go, q the bits found)
RECURSIVE DivBits(_, _, _, _)
DivBits(q, r, d, n) ==
  IF n = 0 THEN [q |-> q, r |-> r]
  ELSE LET r2 == BMulSmall(r, 2)
       IN  IF BCmp(r2, d) >= 0
           THEN DivBits(2 * q + 1, BSub(r2, d), d, n - 1)
           ELSE DivBits(2 * q, r2, d, n - 1)

\* For r < d, floor(r * LimbBase^n / d) and the remainder
RECURSIVE DivLimbs(_, _, _)
DivLimbs(r, d, n) ==
  IF n = 0 THEN [q |-> <<>>, r |-> r]
  ELSE LET st   == DivBits(0, r, d, LimbBits)
           rest == DivLimbs(st.r, d, n - 1)
       IN  [q |-> rest.q \o <<st.q>>, r |-> rest.r]

QuotLimbs == 5

RECURSIVE NatTrailingZeros(_)
NatTrailingZeros(n) == IF n % 2 = 1 THEN 0 ELSE 1 + NatTrailingZeros(n \div 2)

\* The number of zero bits at the low end of a /= 0
RECURSIVE TrailingZeros(_)
TrailingZeros(a) ==
  IF a[1] = 0 THEN LimbBits + TrailingZeros(Tail(a)) ELSE NatTrailingZeros(a[1])

\* The quotient q of n by the one-limb k, times 2^e
FDivExact(s, n, k, q, e) == FRound(s, q, e, BMulSmall(q, k) /= n)

FDivSmall(s, n, k, e) == FDivExact(s, n, k, BDivSmall(n, k), e)

\* The quotient qr of long division, its leading bit apart
FDivQuot(s, qr, first, e) ==
  FRound(s, BNorm(qr.q \o (IF first THEN <<1>> ELSE <<>>)), e, qr.r /= <<>>)

FDivLong(s, a, b, first, e) ==
  FDivQuot(s, DivLimbs(IF first THEN BSub(a, b) ELSE a, b, QuotLimbs), first, e)

\* y.m = k * 2^tz, k odd
FDivOdd(x, y, tz, k) ==
  IF Len(k) = 1
  THEN FDivSmall((x.s + y.s) % 2, BShl(x.m, LimbBits + 3), k[1],
                 x.e - (LimbBits + 3) - (y.e + tz))
  ELSE FDivLong((x.s + y.s) % 2, x.m, y.m, BCmp(x.m, y.m) >= 0,
                x.e - y.e - QuotLimbs * LimbBits)

FDivBy(x, y, tz) == FDivOdd(x, y, tz, BShr(y.m, tz))

\* x / y, y nonzero: the exact quotient to more than MantBits + 1 bits, the
\* remainder sticky.  A divisor k * 2^j with k of one limb (every divisor that
\* is a small integer) is divided by in one pass, any other by long division.
FDiv(x, y) ==
  IF x.m = <<>> THEN FZero ELSE FDivBy(x, y, TrailingZeros(y.m))

\* -1, 0, 1 as x < y, x = y, x > y
FCmp(x, y) ==
  LET mag == IF x.e = y.e THEN BCmp(x.m, y.m)
             ELSE IF x.e < y.e THEN -1 ELSE 1
  IN  IF x.m = <<>> /\ y.m = <<>> THEN 0
      ELSE IF x.m = <<>> THEN (IF y.s = 1 THEN 1 ELSE -1)
      ELSE IF y.m = <<>> THEN (IF x.s = 1 THEN -1 ELSE 1)
      ELSE IF x.s /= y.s THEN (IF x.s = 1 THEN -1 ELSE 1)
      ELSE IF x.s = 1 THEN -mag ELSE mag

FLt(x, y) == FCmp(x, y) < 0
FLe(x, y) == FCmp(x, y) <= 0
FGe(x, y) == FCmp(x, y) >= 0
FGt(x, y) == FCmp(x, y) > 0

\* Python's min(a, b) and max(a, b): the first argument unless the second beats it
FMin(a, b) == IF FLt(b, a) THEN b ELSE a
FMax(a, b) == IF FGt(b, a) THEN b ELSE a

\* The integer nearest to |x| * c (c a small positive integer), ties to even
RoundScaled(x, c) ==
  IF x.m = <<>> THEN 0
  ELSE LET n == BMulSmall(x.m, c)
       IN  IF x.e >= 0 THEN BToNat(BShl(n, x.e))
           ELSE IF -x.e > BitLen(n) + 1 THEN 0
           ELSE BToNat(BRoundShr(n, -x.e, FALSE))

\* round(x): the nearest int, ties to even
FRoundInt(x) == IF x.s = 1 THEN -RoundScaled(x, 1) ELSE RoundScaled(x, 1)

\* round(x, 1) in tenths: the decimal with one digit nearest to x, ties to even
FRoundTenths(x) == IF x.s = 1 THEN -RoundScaled(x, 10) ELSE RoundScaled(x, 10)

\* A decimal literal num/den (den a power of ten), correctly rounded
FDec(num, den) == FDiv(FromInt(num), FromInt(den))

\* round(x, 1)
FRound1(x) == FDec(FRoundTenths(x), 10)

\* int(x) for a float x: truncation toward zero
FTrunc(x) ==
  IF x.m = <<>> THEN 0
  ELSE LET a == IF x.e >= 0 THEN BToNat(BShl(x.m, x.e))
                ELSE BToNat(BShr(x.m, -x.e))
       IN  IF x.s = 1 THEN -a ELSE a

(***************************************************************************)
(* Python values.  A str is a sequence of characters; a list is known by   *)
(* its length, which is all the code reads of it.                          *)
(***************************************************************************)
None        == [t |-> "None"]
PyInt(n)    == [t |-> "int", i |-> n]
PyFloat(x)  == [t |-> "float", f |-> x]
PyStr(c)    == [t |-> "str", c |-> c]
PyList(n)   == [t |-> "list", n |-> n]

\* bool(v)
Truthy(v) ==
  CASE v.t = "None"  -> FALSE
    [] v.t = "int"   -> v.i /= 0
    [] v.t = "float" -> v.f.m /= <<>>
    [] v.t = "str"   -> v.c /= <<>>
    [] v.t = "list"  -> v.n /= 0

\* v or d
Or(v, d) == IF Truthy(v) THEN v ELSE d

Range(seq) == {seq[i] : i \in 1..Len(seq)}

Whitespace == {" ", "\t", "\n"}
Digits     == <<"0", "1", "2", "3", "4", "5", "6", "7", "8", "9">>
UpperCase  == <<"A", "B", "C", "D", "E", "F", "G", "H", "I", "J", "K", "L", "M",
                "N", "O", "P", "Q", "R", "S", "T", "U", "V", "W", "X", "Y", "Z">>
LowerCase  == <<"a", "b", "c", "d", "e", "f", "g", "h", "i", "j", "k", "l", "m",
                "n", "o", "p", "q", "r", "s", "t", "u", "v", "w", "x", "y", "z">>

IndexIn(c, alphabet) ==
  IF \E i \in 1..Len(alphabet) : alphabet[i] = c
  THEN CHOOSE i \in 1..Len(alphabet) : alphabet[i] = c
  ELSE 0

RECURSIVE LStrip(_)
LStrip(c) ==
  IF c /= <<>> /\ Head(c) \in Whitespace THEN LStrip(Tail(c)) ELSE c

RECURSIVE RStrip(_)
RStrip(c) ==
  IF c /= <<>> /\ c[Len(c)] \in Whitespace
  THEN RStrip(SubSeq(c, 1, Len(c) - 1)) ELSE c

\* str.strip()
Strip(c) == RStrip(LStrip(c))

ToLower == [c \in Range(UpperCase) |-> LowerCase[IndexIn(c, UpperCase)]]

\* str.lower()
Lower(c) == [i \in 1..Len(c) |-> IF c[i] \in DOMAIN ToLower THEN ToLower[c[i]] ELSE c[i]]

IsDigits(c) == c /= <<>> /\ \A i \in 1..Len(c) : IndexIn(c[i], Digits) > 0

RECURSIVE DigitsValue(_)
DigitsValue(c) ==
  IF c = <<>> THEN 0
  ELSE 10 * DigitsValue(SubSeq(c, 1, Len(c) - 1)) + (IndexIn(c[Len(c)], Digits) - 1)

Unsigned(c) == IF c /= <<>> /\ Head(c) \in {"+", "-"} THEN Tail(c) ELSE c
SignOf(c)   == IF c /= <<>> /\ Head(c) = "-" THEN -1 ELSE 1

Ok(v)     == [exc |-> "none", val |-> v]
Raise(e)  == [exc |-> e]

\* int(v): an int as it is, a float truncated, a str of an optionally signed
\* run of digits (spaces around it allowed) parsed, anything else an error
int(v) ==
  CASE v.t = "int"   -> Ok(v.i)
    [] v.t = "float" -> Ok(FTrunc(v.f))
    [] v.t = "str"   ->
         LET body == Unsigned(Strip(v.c))
         IN  IF IsDigits(body) THEN Ok(SignOf(Strip(v.c)) * DigitsValue(body))
             ELSE Raise("ValueError")
    [] OTHER         -> Raise("TypeError")

DotAt(c) == IndexIn(".", c)

\* float(v): a decimal str "ddd" or "ddd.ddd" is converted correctly rounded
float(v) ==
  CASE v.t = "int"   -> Ok(FromInt(v.i))
    [] v.t = "float" -> Ok(v.f)
    [] v.t = "str"   ->
         LET st   == Strip(v.c)
             body == Unsigned(st)
             dot  == DotAt(body)
             ip   == IF dot = 0 THEN body ELSE SubSeq(body, 1, dot - 1)
             fp   == IF dot = 0 THEN <<>> ELSE SubSeq(body, dot + 1, Len(body))
         IN  IF (ip \o fp) /= <<>> /\ (ip = <<>> \/ IsDigits(ip)) /\ (fp = <<>> \/ IsDigits(fp))
             THEN Ok(FDec(SignOf(st) * DigitsValue(ip \o fp), 10^Len(fp)))
             ELSE Raise("ValueError")
    [] OTHER         -> Raise("TypeError")

(***************************************************************************)
(* pmf_score_engine.py                                                     *)
(***************************************************************************)
ScoreKeys ==
  <<"problem_score", "persona_score", "solution_score", "market_score", "retention_score">>

\* A dict is the sequence of its items, in insertion order
Item(k, v) == [k |-> k, v |-> v]

DEFAULT_WEIGHTS ==
  << Item("problem_score",   FDec(20, 100)),
     Item("persona_score",   FDec(10, 100)),
     Item("solution_score",  FDec(25, 100)),
     Item("market_score",    FDec(25, 100)),
     Item("retention_score", FDec(20, 100)) >>

IsNumber(v) == v.t \in {"int", "float"}

\* a + b for numbers: an int while both are ints, a float otherwise
PyAdd(a, b) ==
  IF a.t = "int" /\ b.t = "int" THEN PyInt(a.i + b.i)
  ELSE PyFloat(FAdd(float(a).val, float(b).val))

\* sum(values), from the int 0, left to right
RECURSIVE PySumFrom(_, _, _)
PySumFrom(items, i, acc) ==
  IF i > Len(items) THEN Ok(acc)
  ELSE IF ~IsNumber(items[i].v) THEN Raise("TypeError")
  ELSE PySumFrom(items, i + 1, PyAdd(acc, items[i].v))

PySum(items) == PySumFrom(items, 1, PyInt(0))

\* The file at the path: absent, unreadable (open fails), corrupt (not JSON),
\* a JSON value that is no object ("list"), or a JSON object ("dict", w its items)
FileAbsent     == [kind |-> "absent", w |-> <<>>]
FileUnreadable == [kind |-> "unreadable", w |-> <<>>]
FileCorrupt    == [kind |-> "corrupt", w |-> <<>>]
FileList       == [kind |-> "list", w |-> <<>>]
FileDict(w)    == [kind |-> "dict", w |-> w]

\* Normalized dividing by the number of weights
NormalizedByCount(w, total) ==
  IF FLe(total, FZero) THEN Raise("default")
  ELSE Ok([i \in 1..Len(w) |-> Item(w[i].k, FDiv(float(w[i].v).val, FromInt(Len(w))))])

\* Normalized without the test of total <= 0 (dividing by 0 raises)
NormalizedUnchecked(w, total) ==
  IF total = FZero THEN Raise("ZeroDivisionError")
  ELSE Ok([i \in 1..Len(w) |-> Item(w[i].k, FDiv(float(w[i].v).val, total))])

\* {k: float(v)/total for k,v in w.items()}, or "default" when total <= 0
Normalized(w, total) ==
  IF FLe(total, FZero) THEN Raise("default")
  ELSE Ok([i \in 1..Len(w) |-> Item(w[i].k, FDiv(float(w[i].v).val, total))])

\* The try block from sum(w.values()) on, total its result
NormalizedBy(w, total) ==
  IF total.exc /= "none" THEN total ELSE Normalized(w, float(total.val).val)

\* The try block: the table, or what leaves it otherwise (open() or json.load()
\* or sum() raising, w.values missing on a list, or the return of the default)
ReadWeights(file) ==
  IF file.kind /= "dict" THEN Raise(file.kind) ELSE NormalizedBy(file.w, PySum(file.w))

OrDefault(r) == IF r.exc = "none" THEN r.val ELSE DEFAULT_WEIGHTS

load_weights(file) == OrDefault(ReadWeights(file))

F(n) == FromInt(n)

\* The float literals of the module
F1_2 == FDec(12, 10)
F1_8 == FDec(18, 10)
F0_8 == FDec(8, 10)

\* The slope of the middle piece kept above 40
SeanEllisCurveSteep(x) ==
  IF FLe(x, F(0)) THEN FZero
  ELSE IF FGe(x, F(100)) THEN F(100)
  ELSE IF FLt(x, F(20)) THEN FMul(x, F1_2)
  ELSE IF FLt(x, F(40)) THEN FAdd(F(24), FMul(FSub(x, F(20)), F1_8))
  ELSE FMin(F(100), FAdd(F(60), FMul(FSub(x, F(40)), F1_8)))

\* The slopes of the first two pieces exchanged
SeanEllisCurveSwapped(x) ==
  IF FLe(x, F(0)) THEN FZero
  ELSE IF FGe(x, F(100)) THEN F(100)
  ELSE IF FLt(x, F(20)) THEN FMul(x, F1_8)
  ELSE IF FLt(x, F(40)) THEN FAdd(F(24), FMul(FSub(x, F(20)), F1_2))
  ELSE FMin(F(100), FAdd(F(60), FMul(FSub(x, F(40)), F(1))))

\* The piecewise map, x the float of the answer
SeanEllisCurve(x) ==
  IF FLe(x, F(0)) THEN FZero
  ELSE IF FGe(x, F(100)) THEN F(100)
  ELSE IF FLt(x, F(20)) THEN FMul(x, F1_2)
  ELSE IF FLt(x, F(40)) THEN FAdd(F(24), FMul(FSub(x, F(20)), F1_8))
  ELSE FMin(F(100), FAdd(F(60), FMul(FSub(x, F(40)), F(1))))

\* x = float(very_disappointed_percent), which may raise
SeanEllisOf(x) == IF x.exc /= "none" THEN x ELSE Ok(PyFloat(SeanEllisCurve(x.val)))

map_sean_ellis_to_score(very_disappointed_percent) ==
  IF very_disappointed_percent.t = "None" THEN Ok(None)
  ELSE SeanEllisOf(float(very_disappointed_percent))

\* n = float(nps) inside the try
NpsOf(n) ==
  IF n.exc /= "none" THEN None
  ELSE PyFloat(FMax(FZero, FMin(F(100), FDiv(FAdd(n.val, F(100)), F(2)))))

scale_nps_to_0_100(nps) == NpsOf(float(nps))

\* raw.get(k): the value of the field, None when the field is absent
Get(raw, k) == IF k \in DOMAIN raw THEN raw[k] ELSE None

\* (v or "").strip()
StripText(v) ==
  LET s == Or(v, PyStr(<<>>))
  IN  IF s.t = "str" THEN Ok(Strip(s.c)) ELSE Raise("AttributeError")

\* int(v or 0)
IntOr0(v) == int(Or(v, PyInt(0)))

\* if d <= 1: d = d * 100
Percent(d) == IF FLe(d, F(1)) THEN FMul(d, F(100)) ELSE d

\* Clamp100 without the upper clamp
ClampBelow(x) == FMax(FZero, x)

\* max(0.0, min(100.0, x))
Clamp100(x) == FMax(FZero, FMin(F(100), x))

\* A try block of the retention rule, d = float(...) of its field
Day7Of(d)   == IF d.exc /= "none" THEN PyInt(40) ELSE PyFloat(Clamp100(Percent(d.val)))
DauMauOf(d) ==
  IF d.exc /= "none" THEN PyInt(40)
  ELSE PyFloat(Clamp100(FMul(Percent(d.val), F0_8)))

\* The DAU/MAU ratio consulted before the day 7 retention
retention_scoreDauFirst(day7, dau_mau) ==
  IF dau_mau.t /= "None" THEN DauMauOf(float(dau_mau))
  ELSE IF day7.t /= "None" THEN Day7Of(float(day7))
  ELSE PyInt(40)

retention_score(day7, dau_mau) ==
  IF day7.t /= "None" THEN Day7Of(float(day7))
  ELSE IF dau_mau.t /= "None" THEN DauMauOf(float(dau_mau))
  ELSE PyInt(40)

\* The else branch of the solution rule
\* The count of positive comments compared the wrong way round
SolutionWithoutSeanFlipped(mapped_nps, positive_comments) ==
  IF mapped_nps.t /= "None" THEN Ok(mapped_nps)
  ELSE IF positive_comments.exc /= "none" THEN positive_comments
  ELSE Ok(PyInt(IF positive_comments.val <= 5 THEN 75 ELSE 50))

SolutionWithoutSean(mapped_nps, positive_comments) ==
  IF mapped_nps.t /= "None" THEN Ok(mapped_nps)
  ELSE IF positive_comments.exc /= "none" THEN positive_comments
  ELSE Ok(PyInt(IF positive_comments.val >= 5 THEN 75 ELSE 50))

\* The NPS consulted before the Sean Ellis answer
solution_scoreNpsFirst(sean, nps, positive_comments) ==
  IF nps.t /= "None" /\ scale_nps_to_0_100(nps) /= None THEN Ok(scale_nps_to_0_100(nps))
  ELSE IF sean.t /= "None" THEN map_sean_ellis_to_score(sean)
  ELSE SolutionWithoutSean(None, IntOr0(positive_comments))

\* scores["solution_score"], or the exception of the rule
solution_score(sean, nps, positive_comments) ==
  IF sean.t /= "None" THEN map_sean_ellis_to_score(sean)
  ELSE SolutionWithoutSean(IF nps.t /= "None" THEN scale_nps_to_0_100(nps) ELSE None,
                           IntOr0(positive_comments))

problem_score(problem_text, interviews) ==
  IF problem_text /= <<>> /\ interviews >= 8 THEN 90
  ELSE IF problem_text /= <<>> /\ interviews >= 3 THEN 70
  ELSE IF interviews >= 8 THEN 60
  ELSE 35

persona_score(persona) ==
  IF persona.t = "list" /\ persona.n >= 2 THEN 85
  ELSE IF persona.t = "list" /\ persona.n = 1 THEN 65
  ELSE IF persona.t = "str" /\ Len(persona.c) > 10 THEN 60
  ELSE 30

\* The pilot users consulted before the paying customers
market_scorePilotsFirst(paid_customers, pilots, interviews) ==
  IF pilots >= 50 THEN 85
  ELSE IF paid_customers >= 20 THEN 90
  ELSE IF pilots >= 10 \/ interviews >= 10 THEN 70
  ELSE 40

market_score(paid_customers, pilots, interviews) ==
  IF paid_customers >= 20 THEN 90
  ELSE IF pilots >= 50 THEN 85
  ELSE IF pilots >= 10 \/ interviews >= 10 THEN 70
  ELSE 40

\* The dict returned, or the first exception in the order of the statements
Scores(raw, problem_text, interviews, solution, pilots, paid_customers) ==
  IF problem_text.exc /= "none" THEN Raise(problem_text.exc)
  ELSE IF interviews.exc /= "none" THEN Raise(interviews.exc)
  ELSE IF solution.exc /= "none" THEN Raise(solution.exc)
  ELSE IF pilots.exc /= "none" THEN Raise(pilots.exc)
  ELSE IF paid_customers.exc /= "none" THEN Raise(paid_customers.exc)
  ELSE Ok([k \in Range(ScoreKeys) |->
             CASE k = "problem_score"   ->
                    PyInt(problem_score(problem_text.val, interviews.val))
               [] k = "persona_score"   -> PyInt(persona_score(Get(raw, "target")))
               [] k = "solution_score"  -> solution.val
               [] k = "market_score"    ->
                    PyInt(market_score(paid_customers.val, pilots.val, interviews.val))
               [] k = "retention_score" ->
                    retention_score(Get(raw, "day7_retention"), Get(raw, "dau_mau"))])

build_scores_from_raw(raw) ==
  Scores(raw,
         StripText(Get(raw, "problem")),
         IntOr0(Get(raw, "interviews_count")),
         solution_score(Get(raw, "very_disappointed_percent"), Get(raw, "nps"),
                        Get(raw, "positive_comments")),
         IntOr0(Get(raw, "pilot_users")),
         IntOr0(Get(raw, "paid_customers")))

\* total += w * val over weights.items(), val = float(comps.get(key, 0) or 0)
\* clamped to [0, 100]
\* if val < 0: val = 0; if val > 100: val = 100
Clamped(val) ==
  IF FLt(val, F(0)) THEN F(0) ELSE IF FGt(val, F(100)) THEN F(100) ELSE val

RECURSIVE WeightedSumFrom(_, _, _, _)
WeightedSumFrom(weights, comps, i, total) ==
  IF i > Len(weights) THEN total
  ELSE WeightedSumFrom(weights, comps, i + 1,
         FAdd(total, FMul(weights[i].v,
                          Clamped(float(Or(Get(comps, weights[i].k), PyInt(0))).val))))

\* The thresholds taken as exclusive upper bounds
StageOfStrict(pmf_score) ==
  IF FLt(pmf_score, F(40)) THEN "Problem Discovery"
  ELSE IF FLt(pmf_score, F(60)) THEN "Problem/Solution Fit"
  ELSE IF FLt(pmf_score, F(80)) THEN "Product/Market Fit (In Progress)"
  ELSE "PMF Achieved"

StageOf(pmf_score) ==
  IF FLe(pmf_score, F(40)) THEN "Problem Discovery"
  ELSE IF FLe(pmf_score, F(60)) THEN "Problem/Solution Fit"
  ELSE IF FLe(pmf_score, F(80)) THEN "Product/Market Fit (In Progress)"
  ELSE "PMF Achieved"

\* The tuple returned
Staged(pmf_score, comps) ==
  [score |-> pmf_score, stage |-> StageOf(pmf_score), comps |-> comps]

calculate_pmf_score(component_scores, file) ==
  Staged(FRound1(WeightedSumFrom(load_weights(file), component_scores, 1, FZero)),
         component_scores)

(***************************************************************************)
(* app.py: data quality, score adjustment, display mode                    *)
(***************************************************************************)
text_keys ==
  << "problem", "problem_intensity", "current_alternatives",
     "willingness_to_pay", "target", "beachhead_customer",
     "customer_access", "solution", "usp", "mvp_status",
     "pricing_model", "repeat_usage", "retention_signal",
     "revenue_status", "key_feedback", "market_size",
     "channels", "pmf_pull_signal", "referral_signal",
     "next_experiments", "biggest_risk", "business_item" >>

Stoplist ==
  { <<"a", "s", "d", "f">>, <<"q", "w", "e", "r">>, <<"t", "e", "s", "t">>,
    <<"t", "t">>, <<"1", "1">>, <<"1", "2", "3", "4">>, <<"1", "2", "3">>,
    <<"1", "1", "1", "1">> }

F0_6 == FDec(6, 10)
F0_4 == FDec(4, 10)
F0_7 == FDec(7, 10)

\* The loop over text_keys from key i on: the counts, or the exception of the
\* first field that is neither a str nor falsy
RECURSIVE CountFields(_, _, _)
CountFields(raw, i, n) ==
  IF i > Len(text_keys) THEN Ok(n)
  ELSE LET v == StripText(Get(raw, text_keys[i]))
       IN  IF v.exc /= "none" THEN v
           ELSE IF v.val = <<>> THEN CountFields(raw, i + 1, n)
           ELSE CountFields(raw, i + 1,
                  [nonempty |-> n.nonempty + 1,
                   rich     |-> n.rich + (IF Len(v.val) >= 60 THEN 1 ELSE 0),
                   garbage_like |-> n.garbage_like +
                      (IF Len(v.val) <= 4 THEN 1
                       ELSE IF Lower(v.val) \in Stoplist THEN 1 ELSE 0)])

\* The cutpoints taken as inclusive upper bounds
QualityLabelInclusive(score) ==
  IF score <= 25 THEN "very_low"
  ELSE IF score <= 60 THEN "medium"
  ELSE "high"

QualityLabel(score) ==
  IF score < 25 THEN "very_low"        \* "매우 낮음"
  ELSE IF score < 60 THEN "medium"     \* "보통"
  ELSE "high"                          \* "높음"

\* The two coefficients exchanged
BaseScoreSwapped(nonempty, rich, total) ==
  FMul(F(100), FAdd(FMul(F0_4, FDiv(F(nonempty), F(total))),
                    FMul(F0_6, FDiv(F(rich), F(total)))))

\* score = 100 * (0.6 * coverage + 0.4 * richness)
BaseScore(nonempty, rich, total) ==
  FMul(F(100), FAdd(FMul(F0_6, FDiv(F(nonempty), F(total))),
                    FMul(F0_4, FDiv(F(rich), F(total)))))

\* if nonempty > 0: score *= (1.0 - 0.7 * garbage_ratio)
Penalized(score, nonempty, garbage_like) ==
  IF nonempty > 0
  THEN FMul(score, FSub(F(1), FMul(F0_7, FDiv(F(garbage_like), F(Max(nonempty, 1))))))
  ELSE score

\* The tuple returned
Labelled(score) == Ok([score |-> score, label |-> QualityLabel(score)])

\* The part after the loop, n its counts
QualityOf(n) ==
  Labelled(Max(0, Min(100,
    FRoundInt(Penalized(BaseScore(n.nonempty, n.rich, Len(text_keys)),
                        n.nonempty, n.garbage_like)))))

QualityAfter(counted) ==
  IF counted.exc /= "none" THEN counted ELSE QualityOf(counted.val)

\* The count of paying customers taken for one more answered field
assess_data_qualityWithPaying(raw) ==
  QualityAfter(CountFields(raw, 1,
    [nonempty |-> IF Get(raw, "paid_customers") /= None THEN 1 ELSE 0,
     rich |-> 0, garbage_like |-> 0]))

assess_data_quality(raw) ==
  QualityAfter(CountFields(raw, 1, [nonempty |-> 0, rich |-> 0, garbage_like |-> 0]))

\* The stage strings of _adjust_pmf_score
StageNoData  == "No data / cannot assess (Pre-PMF)"    \* "정보 부족 / 진단 불가 (Pre-PMF)"
StageEarly   == "No data / Early Problem Fit"          \* "정보 부족 / Early Problem Fit"
StageExplore == "Early exploration / Problem Discovery" \* "초기 탐색 / Problem Discovery"

\* A score that does not parse taken for 0.0
AdjustedFromZero(raw_score, raw_stage, s, q) ==
  IF s.exc /= "none" THEN [score |-> PyFloat(FZero), stage |-> raw_stage]
  ELSE IF q < 20 THEN [score |-> PyFloat(F(5)), stage |-> StageNoData]
  ELSE IF q < 40 THEN [score |-> PyFloat(FMin(s.val, F(20))), stage |-> StageEarly]
  ELSE IF q < 60 THEN [score |-> PyFloat(FMin(s.val, F(35))), stage |-> StageExplore]
  ELSE [score |-> PyFloat(s.val), stage |-> raw_stage]

\* raw_score a number, quality_score an int or None
\* The branches of the function, s = float(raw_score) and q the clamped quality
Adjusted(raw_score, raw_stage, s, q) ==
  IF s.exc /= "none" THEN [score |-> raw_score, stage |-> raw_stage]
  ELSE IF q < 20 THEN [score |-> PyFloat(F(5)), stage |-> StageNoData]
  ELSE IF q < 40 THEN [score |-> PyFloat(FMin(s.val, F(20))), stage |-> StageEarly]
  ELSE IF q < 60 THEN [score |-> PyFloat(FMin(s.val, F(35))), stage |-> StageExplore]
  ELSE [score |-> PyFloat(s.val), stage |-> raw_stage]

_adjust_pmf_score(raw_score, raw_stage, quality_score) ==
  Adjusted(raw_score, raw_stage, float(raw_score),
           Max(0, Min(100, int(Or(quality_score, PyInt(0))).val)))

\* The stage and the notes of _build_pmf_pdf_data
StageInvalid  == "Insufficient data (cannot assess)"   \* "데이터 부족(판정 불가)"
NoteInvalid   == "score not produced: answers too short or perfunctory"
NoteReference == "score for reference only: input partly insufficient"
SummaryNotice == "no reliable analysis: answers too short"

\* ScoreMode with "<=" for "<" at the lower cutpoint
ScoreModeInclusive(data_quality_score) ==
  IF data_quality_score <= 25 THEN "invalid"
  ELSE IF data_quality_score < 60 THEN "reference"
  ELSE "normal"

\* ScoreMode with "<=" for "<" at the upper cutpoint
ScoreModeLate(data_quality_score) ==
  IF data_quality_score < 25 THEN "invalid"
  ELSE IF data_quality_score <= 60 THEN "reference"
  ELSE "normal"

\* ScoreMode with the first comparison turned round
ScoreModeFlipped(data_quality_score) ==
  IF data_quality_score >= 25 THEN "invalid"
  ELSE IF data_quality_score < 60 THEN "reference"
  ELSE "normal"

\* The mode chosen from the data quality score
ScoreMode(data_quality_score) ==
  IF data_quality_score < 25 THEN "invalid"
  ELSE IF data_quality_score < 60 THEN "reference"
  ELSE "normal"

\* The tuple _build_pmf_pdf_data returns (pdf_data carries the same values), or
\* the exception that escapes it.  generate_ai_summary is no name of app.py: the
\* call raises NameError, which the handler catches, leaving ai_summary "".
PdfData(scored, quality, given) ==
  LET pmf_score_mode == ScoreMode(quality.val.score)
  IN  IF quality.exc /= "none" THEN Raise(quality.exc)
      ELSE IF given.exc /= "none" THEN Raise(given.exc)
      ELSE [exc |-> "none",
            pmf_score_for_display |->
              IF pmf_score_mode = "invalid" THEN None
              ELSE PyFloat(FRound1(float(PyFloat(scored.score)).val)),
            stage |-> IF pmf_score_mode = "invalid" THEN StageInvalid ELSE scored.stage,
            pmf_score_raw        |-> PyFloat(scored.score),
            validation_stage_raw |-> scored.stage,
            data_quality_score   |-> quality.val.score,
            data_quality_label   |-> quality.val.label,
            pmf_score_mode       |-> pmf_score_mode,
            pmf_score_note       |->
              CASE pmf_score_mode = "invalid"   -> NoteInvalid
                [] pmf_score_mode = "reference" -> NoteReference
                [] OTHER                        -> "",
            ai_summary |->
              IF given.val /= <<>> THEN "given"
              ELSE IF pmf_score_mode = "invalid" THEN SummaryNotice
              ELSE "",
            comps      |-> scored.comps]

\* comps = build_scores_from_raw(raw), which may raise
PdfDataAfter(raw, file, comps) ==
  IF comps.exc /= "none" THEN Raise(comps.exc)
  ELSE PdfData(calculate_pmf_score(comps.val, file), assess_data_quality(raw),
               StripText(Get(raw, "ai_summary")))

_build_pmf_pdf_data(raw, file) == PdfDataAfter(raw, file, build_scores_from_raw(raw))

(***************************************************************************)
(* The survey inputs of the model                                          *)
(***************************************************************************)
NumericKeys ==
  << "interviews_count", "very_disappointed_percent", "nps", "positive_comments",
     "pilot_users", "paid_customers", "day7_retention", "dau_mau" >>

Fields == Range(text_keys) \cup Range(NumericKeys) \cup {"ai_summary"}

Rep(c, n) == [i \in 1..n |-> c]

\* Answers: long enough to count as rich, plain, short, a placeholder in capitals
\* with blanks around it, blanks only
TxtRich    == PyStr(Rep("x", 60))
TxtAlmost  == PyStr(<<" ">> \o Rep("x", 59) \o <<" ">>)
TxtPlain   == PyStr(Rep("y", 11))
TxtTen     == PyStr(Rep("y", 10))
TxtShort   == PyStr(<<" ", "T", "e", "s", "t", " ">>)
TxtBlank   == PyStr(<<" ", " ">>)
TxtEmpty   == PyStr(<<>>)

\* The text fields other than problem and target, which the scorer reads too
OtherText == SelectSeq(text_keys, LAMBDA k : k \notin {"problem", "target"})

\* The first rich of the other text fields rich, the next plain of them plain, the
\* next short of them short, the rest absent
TextFill(rich, plain, short) ==
  [k \in Range(OtherText) |->
     LET i == CHOOSE j \in 1..Len(OtherText) : OtherText[j] = k
     IN  IF i <= rich THEN TxtRich
         ELSE IF i <= rich + plain THEN TxtPlain
         ELSE IF i <= rich + plain + short THEN TxtShort
         ELSE None]

\* A survey: problem, target, the fill of the other text fields, the numeric fields
Survey(problem, target, fill, numeric) ==
  [k \in Fields |->
     IF k = "problem" THEN problem
     ELSE IF k = "target" THEN target
     ELSE IF k \in DOMAIN fill THEN fill[k]
     ELSE IF k \in DOMAIN numeric THEN numeric[k]
     ELSE None]

NumNone == [k \in Range(NumericKeys) |-> None]
With(numeric, k, v) == [numeric EXCEPT ![k] = v]

Str2(a, b)    == PyStr(<<a, b>>)
Str3(a, b, c) == PyStr(<<a, b, c>>)

\* spec.md section 8: 10 interviews, 55 % very disappointed, 25 paying, 45 % day 7
NumStrong ==
  [NumNone EXCEPT !["interviews_count"] = PyInt(10),
                  !["very_disappointed_percent"] = PyInt(55),
                  !["paid_customers"] = PyInt(25),
                  !["day7_retention"] = PyFloat(FDec(45, 100))]

\* The values of an HTML form: every number a str
NumForm ==
  [NumNone EXCEPT !["interviews_count"] = Str2("1", "2"),
                  !["nps"] = Str2("3", "0"),
                  !["positive_comments"] = PyStr(<<"6">>),
                  !["pilot_users"] = Str2("6", "0"),
                  !["dau_mau"] = Str3("0", ".", "3")]

MaxRich  == 3
MaxPlain == 17
MaxShort == 2

TextFills ==
  {TextFill(r, p, g) : r \in 0..MaxRich, p \in 0..MaxPlain, g \in 0..MaxShort}

EmptySurvey == Survey(None, None, TextFill(0, 0, 0), NumNone)

\* Well-typed surveys: every fill of the text fields, for a silent, a strong and
\* a form-typed set of answers to the scored questions
TextSweep ==
  {Survey(None, None, f, NumNone) : f \in TextFills}
  \cup {Survey(TxtRich, TxtPlain, f, NumStrong) : f \in TextFills}
  \cup {Survey(TxtAlmost, TxtTen, f, NumForm) : f \in TextFills}

\* Surveys of any JSON shape: a number or a list where text is expected, text
\* where a number is expected; no schema is enforced on the request body
Problems == {None, TxtRich, TxtBlank, PyInt(7), PyInt(0)}
Targets  == {None, TxtPlain, PyList(0), PyList(1), PyList(2)}
Numerics ==
  { NumNone, NumStrong, NumForm,
    With(NumNone, "interviews_count", Str3("a", "b", "c")),
    With(NumStrong, "very_disappointed_percent", Str3("n", "/", "a")),
    With(NumForm, "paid_customers", Str3("1", ".", "5")) }

ShapeSweep ==
  {Survey(p, t, TextFill(1, 2, 1), n) : p \in Problems, t \in Targets, n \in Numerics}
  \cup {[Survey(TxtRich, TxtPlain, TextFill(2, 9, 0), NumForm) EXCEPT !["ai_summary"] = v] :
          v \in {TxtPlain, TxtBlank, PyInt(3)}}

Surveys == TextSweep \cup ShapeSweep

\* weights.json as deployed: absent, broken, or a table of the operator's own
WeightTable(a, b, c, d, e) ==
  FileDict(<< Item("problem_score", a), Item("persona_score", b),
              Item("solution_score", c), Item("market_score", d),
              Item("retention_score", e) >>)

SolutionOnly == FileDict(<<Item("solution_score", PyInt(1))>>)

PipelineFiles ==
  { FileAbsent, SolutionOnly,
    WeightTable(PyInt(1), PyInt(1), PyInt(1), PyInt(2), PyInt(1)) }

\* weights.json of every table of small whole weights, and of the other shapes
MaxWeight == 3

IntTables ==
  {WeightTable(PyInt(a), PyInt(b), PyInt(c), PyInt(d), PyInt(e)) :
     a \in 0..MaxWeight, b \in 0..MaxWeight, c \in 0..MaxWeight,
     d \in 0..MaxWeight, e \in 0..MaxWeight}

\* The default table written out as decimals: 0.2, 0.1, 0.25, 0.25, 0.2
DecimalTable ==
  WeightTable(PyFloat(FDec(2, 10)), PyFloat(FDec(1, 10)), PyFloat(FDec(25, 100)),
              PyFloat(FDec(25, 100)), PyFloat(FDec(2, 10)))

OtherFiles ==
  { FileAbsent, FileUnreadable, FileCorrupt, FileList, SolutionOnly, DecimalTable,
    WeightTable(PyInt(1), PyInt(-1), PyInt(0), PyInt(0), PyInt(0)),
    WeightTable(PyInt(1), PyInt(-3), PyInt(0), PyInt(1), PyInt(0)),
    WeightTable(PyInt(3), PyInt(-1), PyInt(1), PyInt(1), PyInt(1)),
    WeightTable(PyFloat(FDec(5, 10)), PyFloat(FDec(-5, 10)), PyInt(0), PyInt(0), PyInt(0)),
    WeightTable(PyInt(1), Str3("0", ".", "1"), PyInt(1), PyInt(1), PyInt(1)),
    WeightTable(PyInt(1), None, PyInt(1), PyInt(1), PyInt(1)),
    FileDict(<<Item("problem_score", PyInt(1)), Item("team_score", PyInt(3))>>),
    FileDict(<<>>) }

WeightFiles == IntTables \cup OtherFiles

\* Raw scores and quality scores handed to _adjust_pmf_score
MaxScore == 100

RawScores ==
  {PyInt(n) : n \in 0..MaxScore}
  \cup {PyFloat(FDec(n, 10)) : n \in {45, 51, 199, 201, 382, 405, 759}}
  \cup {None, Str3("n", "/", "a"), Str3("7", ".", "5")}

Qualities == {PyInt(q) : q \in -1..101} \cup {None}

\* Inputs of build_scores_from_raw: two of the scored fields set to any value a
\* request can carry, on every shape of problem and target
NumValues ==
  { None, PyInt(0), PyInt(-3), PyInt(9), PyInt(55), PyInt(150),
    PyFloat(FDec(45, 100)), PyFloat(FDec(-25, 10)), PyFloat(FDec(125, 10)),
    Str2("1", "2"), Str3("3", ".", "5"), Str3("a", "b", "c"), TxtEmpty, TxtBlank, PyList(1) }

ScoreInputs ==
  {Survey(TxtPlain, None, TextFill(0, 0, 0), With(With(NumNone, NumericKeys[i], v), NumericKeys[j], w)) :
     i \in 1..Len(NumericKeys), j \in 1..Len(NumericKeys), v \in NumValues, w \in NumValues}
  \cup {Survey(p, t, TextFill(0, 1, 0), n) : p \in Problems, t \in Targets \cup {TxtTen}, n \in Numerics}

\* Surveys that differ in their text only: the same answers to the scored
\* questions, the other text fields filled more or less
PairFills == {TextFill(r, p, 0) : r \in 0..MaxRich, p \in {0, 4, 6, 8, 10, 13, 16}}

PairSurveys ==
  {Survey(TxtRich, TxtPlain, f, NumStrong) : f \in PairFills}
  \cup {Survey(TxtRich, TxtPlain, f, NumForm) : f \in PairFills}

\* Component maps handed to calculate_pmf_score: every map of three scores,
\* and the maps that hold one value under every key (a stage boundary, a value
\* next to it, a value outside [0, 100], None), and the empty map
CompValues == {PyInt(0), PyInt(40), PyInt(100)}

AllOf(v) == [k \in Range(ScoreKeys) |-> v]

EdgeValues ==
  { PyInt(60), PyInt(80), PyInt(150), PyInt(-5), None,
    PyFloat(FDec(4004, 100)), PyFloat(FDec(401, 10)), PyFloat(FDec(601, 10)),
    PyFloat(FDec(801, 10)) }

ComponentMaps ==
  [Range(ScoreKeys) -> CompValues] \cup {AllOf(v) : v \in EdgeValues}
  \cup {[k \in {} |-> None]}

\* weights.json as calculate_pmf_score may find it
CalcFiles ==
  { FileAbsent, FileCorrupt, SolutionOnly, DecimalTable,
    WeightTable(PyInt(1), PyInt(1), PyInt(1), PyInt(2), PyInt(1)),
    WeightTable(PyInt(3), PyInt(-1), PyInt(1), PyInt(1), PyInt(1)),
    FileDict(<<Item("problem_score", PyInt(1)), Item("team_score", PyInt(3))>>) }


\* spec.md section 8: a problem text, 10 interviews, two target segments, 55 %
\* very disappointed, 25 paying customers, 45 % retained on day 7
ExampleSurvey == Survey(TxtRich, PyList(2), TextFill(0, 0, 0), NumStrong)

\* Requests scored by the engine alone
EngineInputs == ShapeSweep \cup PairSurveys \cup {ExampleSurvey, EmptySurvey}

\* Requests that come back: a few fills, for the two sets of answers, with the
\* empty request and the example (whose list of targets makes the handler raise)
RepeatSurveys ==
  {Survey(TxtRich, TxtPlain, TextFill(r, p, 0), n) :
     r \in {0, MaxRich}, p \in {0, 8, 16}, n \in {NumStrong, NumForm}}
  \cup {EmptySurvey, ExampleSurvey}

\* Component maps scored one after another in one process: the probe (40
\* everywhere but a solution score of 100) tells the tables apart
Probe == [AllOf(PyInt(40)) EXCEPT !["solution_score"] = PyInt(100)]

ProcessMaps == {Probe, AllOf(PyInt(40)), AllOf(PyInt(80))}

\* Calls followed in one process
MaxCalls == 3

\* Answers to the Sean Ellis question handed to map_sean_ellis_to_score: every
\* whole percentage and some around it, decimals next to the joints of the
\* curve, the answer as text, no answer
SeanInputs ==
  {PyInt(n) : n \in 0..(MaxScore + 3)}
  \cup {PyInt(-1), PyInt(-3), None, Str2("5", "5"), Str3("a", "b", "c")}
  \cup {PyFloat(FDec(n, 10)) : n \in {1, 5, 125, 199, 201, 333, 399, 401, 759, 999, 1001}}
  \cup {PyFloat(FDec(-25, 10)), PyFloat(FDec(45, 100))}

(***************************************************************************)
(* The token DB (tokens_db.json): a dict from token to its record.  An     *)
(* instant is a number of days; an expiry is an ISO date, a text that is   *)
(* no date, or None.  The file is read whole and written whole.            *)
(***************************************************************************)
IsoDate(d) == [t |-> "date", d |-> d]
BadDate    == PyStr(<<"x">>)

\* rec.get(k, default)
RecGet(rec, k, default) == IF k \in DOMAIN rec THEN rec[k] ELSE default

\* rec[k] = v
RecSet(rec, k, v) == [x \in DOMAIN rec \cup {k} |-> IF x = k THEN v ELSE rec[x]]

\* The record create_token writes
TokenRecord(expires_at) == [active |-> TRUE, expires_at |-> expires_at]

Rejected(e) == [ok |-> FALSE, error |-> e]
Accepted(token, expires_at) == [ok |-> TRUE, token |-> token, expires_at |-> expires_at]

\* validate_token_simple(token) at the instant now, the DB file holding db
validate_token_simple(token, db, now) ==
  IF token = "" THEN Rejected("missing_token")
  ELSE IF token \notin DOMAIN db \/ DOMAIN db[token] = {} THEN Rejected("token_not_found")
  ELSE IF ~RecGet(db[token], "active", TRUE) THEN Rejected("token_revoked")
  ELSE IF RecGet(db[token], "expires_at", None) = None THEN Rejected("no_expiry_set")
  ELSE IF db[token].expires_at.t /= "date" THEN Rejected("invalid_expiry_format")
  ELSE IF now > db[token].expires_at.d THEN Rejected("token_expired")
  ELSE Accepted(token, db[token].expires_at)

\* _require_valid_token_or_403(req): the token of the request, validated
_require_valid_token_or_403(token, db, now) == validate_token_simple(token, db, now)

\* create_token(days): the DB with the new token, which uuid4 made
create_token(db, token, now, days) ==
  [t \in DOMAIN db \cup {token} |->
     IF t = token THEN TokenRecord(IsoDate(now + days)) ELSE db[t]]

\* revoke_token(token): the DB to save, or the DB as loaded when the token
\* is not in it (nothing is saved then)
revoke_token(db, token) ==
  IF token \in DOMAIN db
  THEN [db EXCEPT ![token] = RecSet(db[token], "active", FALSE)]
  ELSE db

\* extend_token(token, add_days): fromisoformat raises on a record without
\* an ISO date, before anything is saved
extend_token(db, token, add_days) ==
  IF token \notin DOMAIN db THEN Ok(db)
  ELSE IF RecGet(db[token], "expires_at", None).t /= "date" THEN Raise("ValueError")
  ELSE Ok([db EXCEPT ![token] =
             RecSet(db[token], "expires_at",
                    IsoDate(db[token].expires_at.d + add_days))])

\* The tokens a DB can hold: uuid4 values, and the records an operator wrote
\* into the file by hand (no expiry, an expiry that is no date, no fields)
TokenIds == {"t1", "t2"}
NoExpiryRecord  == [active |-> TRUE, expires_at |-> None]
BadExpiryRecord == [active |-> TRUE, expires_at |-> BadDate]
LabelOnlyRecord == [label |-> "x"]
BlankRecord     == <<>>

EmptyDb == <<>>

MaxDay  == 3
MaxDays == 2

(***************************************************************************)
(* The state: the weights file on disk, the request being served and what  *)
(* its handler returned; arg and ret hold the arguments and the result of  *)
(* a function called on its own; seen is what the previous request showed  *)
(* (a history variable: the program keeps nothing between requests).       *)
(***************************************************************************)
VARIABLES weights_file, pc, raw, arg, ret, seen,
          tokens_db, now, procs, revoked, created,
          reports_db, supabase, outbox

\* The token DB file and the clock; the token operations in flight, each
\* with the copy of the DB it loaded; the tokens whose revoke, and whose
\* create, has completed (history); the local report file, the Supabase
\* table and the mail sent
service == <<tokens_db, now, procs, revoked, created, reports_db, supabase, outbox>>

vars == <<weights_file, pc, raw, arg, ret, seen, service>>

ReportsAbsent == [kind |-> "absent", rows |-> <<>>]
NoSupabase    == [configured |-> FALSE, rows |-> <<>>]

\* No token, no report, nothing in flight
NoService ==
  /\ tokens_db = EmptyDb
  /\ now = 0
  /\ procs = <<>>
  /\ revoked = {}
  /\ created = {}
  /\ reports_db = ReportsAbsent
  /\ supabase = NoSupabase
  /\ outbox = <<>>

NoArg == [fn |-> "none"]
NoRet == [exc |-> "unset"]

Init ==
  /\ NoService
  /\ weights_file = FileAbsent
  /\ pc = "idle"
  /\ raw = EmptySurvey
  /\ arg = NoArg
  /\ ret = NoRet
  /\ seen = NoRet

\* The operator installs, replaces or removes weights.json between two requests
WriteWeights(f) ==
  /\ pc = "idle"
  /\ f /= weights_file
  /\ weights_file' = f
  /\ UNCHANGED <<service, pc, raw, arg, ret, seen>>

\* A request arrives with its body
Submit(r) ==
  /\ pc = "idle"
  /\ raw' = r
  /\ pc' = "received"
  /\ UNCHANGED <<service, weights_file, arg, ret, seen>>

\* The call creates weights.json, with a starter table, when there is none
BuildPmfPdfDataSeeding ==
  /\ pc = "received"
  /\ ret' = _build_pmf_pdf_data(raw, weights_file)
  /\ pc' = IF ret'.exc = "none" THEN "built" ELSE "raised"
  /\ weights_file' = IF weights_file = FileAbsent
                     THEN WeightTable(PyInt(1), PyInt(1), PyInt(1), PyInt(2), PyInt(1))
                     ELSE weights_file
  /\ UNCHANGED <<service, raw, arg, seen>>

\* _build_pmf_pdf_data(raw), reading weights.json as calculate_pmf_score does
BuildPmfPdfData ==
  /\ pc = "received"
  /\ ret' = _build_pmf_pdf_data(raw, weights_file)
  /\ pc' = IF ret'.exc = "none" THEN "built" ELSE "raised"
  /\ UNCHANGED <<service, weights_file, raw, arg, seen>>

\* The request ends; its locals are gone
Finish ==
  /\ pc \in {"built", "raised"}
  /\ pc' = "idle"
  /\ raw' = EmptySurvey
  /\ ret' = NoRet
  /\ UNCHANGED <<service, weights_file, arg, seen>>

Next ==
  \/ \E f \in PipelineFiles : WriteWeights(f)
  \/ \E r \in Surveys : Submit(r)
  \/ BuildPmfPdfData
  \/ Finish

Spec == Init /\ [][Next]_vars

(***************************************************************************)
(* Two requests in a row, the first one's outcome remembered in seen       *)
(***************************************************************************)
FinishSeen ==
  /\ pc = "built"
  /\ pc' = "idle"
  /\ seen' = ret
  /\ raw' = EmptySurvey
  /\ ret' = NoRet
  /\ UNCHANGED <<service, weights_file, arg>>

NextTwoRuns ==
  \/ \E r \in PairSurveys : Submit(r)
  \/ BuildPmfPdfData
  \/ FinishSeen

SpecTwoRuns == Init /\ [][NextTwoRuns]_vars

(***************************************************************************)
(* The functions called on their own, on every input of a bounded set      *)
(***************************************************************************)
Call(fn, a) ==
  /\ pc = "call"
  /\ arg = [fn |-> fn, a |-> a]
  /\ ret = NoRet
  /\ seen = NoRet

InitWeights ==
  /\ NoService
  /\ weights_file \in WeightFiles
  /\ raw = EmptySurvey
  /\ Call("load_weights", <<>>)

LoadWeights ==
  /\ pc = "call"
  /\ arg.fn = "load_weights"
  /\ ret' = Ok(load_weights(weights_file))
  /\ pc' = "returned"
  /\ UNCHANGED <<service, weights_file, raw, arg, seen>>

SpecWeights == InitWeights /\ [][LoadWeights]_vars

InitScores ==
  /\ NoService
  /\ weights_file = FileAbsent
  /\ raw \in ScoreInputs
  /\ Call("build_scores_from_raw", <<>>)

BuildScores ==
  /\ pc = "call"
  /\ arg.fn = "build_scores_from_raw"
  /\ ret' = build_scores_from_raw(raw)
  /\ pc' = "returned"
  /\ UNCHANGED <<service, weights_file, raw, arg, seen>>

SpecScores == InitScores /\ [][BuildScores]_vars

InitAdjust ==
  /\ NoService
  /\ weights_file = FileAbsent
  /\ raw = EmptySurvey
  /\ \E s \in RawScores, q \in Qualities :
       Call("_adjust_pmf_score", [raw_score |-> s, raw_stage |-> "raw stage", quality_score |-> q])

AdjustPmfScore ==
  /\ pc = "call"
  /\ arg.fn = "_adjust_pmf_score"
  /\ ret' = Ok(_adjust_pmf_score(arg.a.raw_score, arg.a.raw_stage, arg.a.quality_score))
  /\ pc' = "returned"
  /\ UNCHANGED <<service, weights_file, raw, arg, seen>>

SpecAdjust == InitAdjust /\ [][AdjustPmfScore]_vars

InitCalc ==
  /\ NoService
  /\ weights_file \in CalcFiles
  /\ raw = EmptySurvey
  /\ \E comps \in ComponentMaps : Call("calculate_pmf_score", comps)

CalculatePmfScore ==
  /\ pc = "call"
  /\ arg.fn = "calculate_pmf_score"
  /\ ret' = Ok(calculate_pmf_score(arg.a, weights_file))
  /\ pc' = "returned"
  /\ UNCHANGED <<service, weights_file, raw, arg, seen>>

SpecCalc == InitCalc /\ [][CalculatePmfScore]_vars

InitSean ==
  /\ NoService
  /\ weights_file = FileAbsent
  /\ raw = EmptySurvey
  /\ \E x \in SeanInputs : Call("map_sean_ellis_to_score", x)

MapSeanEllis ==
  /\ pc = "call"
  /\ arg.fn = "map_sean_ellis_to_score"
  /\ ret' = map_sean_ellis_to_score(arg.a)
  /\ pc' = "returned"
  /\ UNCHANGED <<service, weights_file, raw, arg, seen>>

SpecSean == InitSean /\ [][MapSeanEllis]_vars

(***************************************************************************)
(* The engine as _build_pmf_pdf_data calls it: build_scores_from_raw, then  *)
(* calculate_pmf_score on its result                                       *)
(***************************************************************************)
InitEngine ==
  /\ NoService
  /\ weights_file \in PipelineFiles
  /\ raw \in EngineInputs
  /\ Call("build_scores_from_raw", <<>>)

CalculateBuilt ==
  /\ pc = "returned"
  /\ arg.fn = "build_scores_from_raw"
  /\ ret.exc = "none"
  /\ ret' = Ok(calculate_pmf_score(ret.val, weights_file))
  /\ pc' = "scored"
  /\ UNCHANGED <<service, weights_file, raw, arg, seen>>

NextEngine == BuildScores \/ CalculateBuilt

SpecEngine == InitEngine /\ [][NextEngine]_vars

(***************************************************************************)
(* Requests one after another in one process, weights.json left alone by   *)
(* the operator: seen remembers one earlier request, its outcome, and      *)
(* whether a different request was served since                            *)
(***************************************************************************)
InitRepeat ==
  /\ NoService
  /\ weights_file \in PipelineFiles
  /\ pc = "idle"
  /\ raw = EmptySurvey
  /\ arg = NoArg
  /\ ret = NoRet
  /\ seen = NoRet

\* The request ends and is remembered
FinishRemembered ==
  /\ pc \in {"built", "raised"}
  /\ pc' = "idle"
  /\ seen' = [raw |-> raw, ret |-> ret, others |-> FALSE]
  /\ raw' = EmptySurvey
  /\ ret' = NoRet
  /\ UNCHANGED <<service, weights_file, arg>>

\* The request ends, the one remembered is kept
FinishKept ==
  /\ pc \in {"built", "raised"}
  /\ seen /= NoRet
  /\ pc' = "idle"
  /\ seen' = [seen EXCEPT !.others = @ \/ raw /= seen.raw]
  /\ raw' = EmptySurvey
  /\ ret' = NoRet
  /\ UNCHANGED <<service, weights_file, arg>>

NextRepeat ==
  \/ \E r \in RepeatSurveys : Submit(r)
  \/ BuildPmfPdfData
  \/ FinishRemembered
  \/ FinishKept

SpecRepeat == InitRepeat /\ [][NextRepeat]_vars

(***************************************************************************)
(* calculate_pmf_score called again and again in one process while the     *)
(* operator may replace weights.json between two calls: seen counts the    *)
(* calls of load_weights and remembers the table of the first call and of  *)
(* the last one                                                            *)
(***************************************************************************)
InitProcess ==
  /\ NoService
  /\ weights_file \in PipelineFiles
  /\ pc = "idle"
  /\ raw = EmptySurvey
  /\ arg = NoArg
  /\ ret = NoRet
  /\ seen = NoRet

\* The table loaded by the first call of the process kept for the later ones
CalculateInProcessOnce(comps) ==
  /\ pc = "idle"
  /\ seen /= NoRet => seen.loads < MaxCalls
  /\ arg' = [fn |-> "calculate_pmf_score", a |-> comps]
  /\ ret' = Ok(Staged(FRound1(WeightedSumFrom(
                 IF seen = NoRet THEN load_weights(weights_file) ELSE seen.first,
                 comps, 1, FZero)), comps))
  /\ seen' = [loads |-> 1,
              first |-> IF seen = NoRet THEN load_weights(weights_file) ELSE seen.first,
              table |-> IF seen = NoRet THEN load_weights(weights_file) ELSE seen.first]
  /\ pc' = "returned"
  /\ UNCHANGED <<service, weights_file, raw>>

\* calculate_pmf_score(comps): line 113 calls load_weights, every time
CalculateInProcess(comps) ==
  /\ pc = "idle"
  /\ seen /= NoRet => seen.loads < MaxCalls
  /\ arg' = [fn |-> "calculate_pmf_score", a |-> comps]
  /\ ret' = Ok(calculate_pmf_score(comps, weights_file))
  /\ seen' = [loads |-> IF seen = NoRet THEN 1 ELSE seen.loads + 1,
              first |-> IF seen = NoRet THEN load_weights(weights_file) ELSE seen.first,
              table |-> load_weights(weights_file)]
  /\ pc' = "returned"
  /\ UNCHANGED <<service, weights_file, raw>>

\* The caller takes the result
TakeResult ==
  /\ pc = "returned"
  /\ pc' = "idle"
  /\ ret' = NoRet
  /\ UNCHANGED <<service, weights_file, raw, arg, seen>>

NextProcess ==
  \/ \E f \in PipelineFiles : WriteWeights(f)
  \/ \E comps \in ProcessMaps : CalculateInProcess(comps)
  \/ TakeResult

SpecProcess == InitProcess /\ [][NextProcess]_vars

(***************************************************************************)
(* The token DB under the operations of token_admin.py and of the /tokens  *)
(* page, one operation at a time, and the clock.  seen is the last         *)
(* operation that wrote the DB; arg and ret are the last validation.       *)
(***************************************************************************)
HandWrittenDbs ==
  {EmptyDb} \cup {[t \in {"t1"} |-> rec] :
                    rec \in {NoExpiryRecord, BadExpiryRecord, LabelOnlyRecord, BlankRecord}}

InitTokens ==
  /\ weights_file = FileAbsent
  /\ pc = "idle"
  /\ raw = EmptySurvey
  /\ arg = NoArg
  /\ ret = NoRet
  /\ seen = NoRet
  /\ tokens_db \in HandWrittenDbs
  /\ now = 0
  /\ procs = <<>>
  /\ revoked = {}
  /\ created = {}
  /\ reports_db = ReportsAbsent
  /\ supabase = NoSupabase
  /\ outbox = <<>>

\* create_token(days) of token_admin.py, action "create" of tokens_admin
CreateToken(token, days) ==
  /\ pc = "idle"
  /\ token \notin DOMAIN tokens_db \cup created
  /\ tokens_db' = create_token(tokens_db, token, now, days)
  /\ created' = created \cup {token}
  /\ seen' = [op |-> "create", token |-> token]
  /\ arg' = NoArg
  /\ ret' = NoRet
  /\ UNCHANGED <<weights_file, pc, raw, now, procs, revoked, reports_db, supabase, outbox>>

\* revoke_token(token) of token_admin.py, action "revoke" of tokens_admin
RevokeToken(token) ==
  /\ pc = "idle"
  /\ tokens_db' = revoke_token(tokens_db, token)
  /\ revoked' = IF token \in DOMAIN tokens_db THEN revoked \cup {token} ELSE revoked
  /\ seen' = [op |-> "revoke", token |-> token]
  /\ arg' = NoArg
  /\ ret' = NoRet
  /\ UNCHANGED <<weights_file, pc, raw, now, procs, created, reports_db, supabase, outbox>>

\* extend_token(token, add_days) of token_admin.py
ExtendToken(token, add_days) ==
  /\ pc = "idle"
  /\ token \in DOMAIN tokens_db /\ RecGet(tokens_db[token], "expires_at", None).t = "date"
       => tokens_db[token].expires_at.d + add_days <= MaxDay + MaxDays
  /\ tokens_db' = IF extend_token(tokens_db, token, add_days).exc = "none"
                  THEN extend_token(tokens_db, token, add_days).val
                  ELSE tokens_db
  /\ seen' = [op |-> "extend", token |-> token]
  /\ arg' = NoArg
  /\ ret' = NoRet
  /\ UNCHANGED <<weights_file, pc, raw, now, procs, revoked, created, reports_db, supabase, outbox>>

\* A day passes
Tick ==
  /\ pc = "idle"
  /\ now < MaxDay
  /\ now' = now + 1
  /\ arg' = NoArg
  /\ ret' = NoRet
  /\ UNCHANGED <<weights_file, pc, raw, seen, tokens_db, procs, revoked, created,
                 reports_db, supabase, outbox>>

\* validate_token_simple(token)
ValidateToken(token) ==
  /\ pc = "idle"
  /\ arg' = [fn |-> "validate_token_simple", a |-> token]
  /\ ret' = validate_token_simple(token, tokens_db, now)
  /\ UNCHANGED <<weights_file, pc, raw, seen, service>>

NextTokens ==
  \/ \E token \in TokenIds, days \in 1..MaxDays : CreateToken(token, days)
  \/ \E token \in TokenIds : RevokeToken(token)
  \/ \E token \in TokenIds, add_days \in 1..MaxDays : ExtendToken(token, add_days)
  \/ Tick
  \/ \E token \in TokenIds \cup {""} : ValidateToken(token)

SpecTokens == InitTokens /\ [][NextTokens]_vars

(***************************************************************************)
(* The token DB under operations that interleave: every operation loads    *)
(* the whole file (_load_db), changes its copy and writes the whole file   *)
(* back (_save_db); nothing locks the file between the two.  procs holds,  *)
(* for each process inside an operation, the operation and the copy it     *)
(* loaded; seen counts the operations started.                             *)
(***************************************************************************)
Procs  == {"p1", "p2"}
MaxOps == 3

InitRace ==
  /\ NoService
  /\ weights_file = FileAbsent
  /\ pc = "idle"
  /\ raw = EmptySurvey
  /\ arg = NoArg
  /\ ret = NoRet
  /\ seen = [started |-> 0]

\* The tokens that creates in flight are about to write
BeingCreated == {procs[p].token : p \in {q \in DOMAIN procs : procs[q].op = "create"}}

\* db = _load_db(), first statement of create_token, revoke_token,
\* extend_token and of the POST branch of tokens_admin
LoadDb(p, op, token) ==
  /\ p \notin DOMAIN procs
  /\ seen.started < MaxOps
  /\ op = "create" => token \notin DOMAIN tokens_db \cup created \cup BeingCreated
  /\ procs' = [q \in DOMAIN procs \cup {p} |->
                 IF q = p THEN [op |-> op, token |-> token, db |-> tokens_db]
                 ELSE procs[q]]
  /\ seen' = [started |-> seen.started + 1]
  /\ UNCHANGED <<weights_file, pc, raw, arg, ret,
                 tokens_db, now, revoked, created, reports_db, supabase, outbox>>

\* What the operation of process p writes back: its copy, changed
Changed(p) ==
  IF procs[p].op = "create" THEN Ok(create_token(procs[p].db, procs[p].token, now, MaxDays))
  ELSE IF procs[p].op = "revoke" THEN Ok(revoke_token(procs[p].db, procs[p].token))
  ELSE extend_token(procs[p].db, procs[p].token, 1)

\* _save_db(db) and the return; an operation that found no such token, or
\* that raised, returns without writing
SaveDb(p) ==
  /\ p \in DOMAIN procs
  /\ tokens_db' = IF (procs[p].op = "create" \/ procs[p].token \in DOMAIN procs[p].db)
                     /\ Changed(p).exc = "none"
                  THEN Changed(p).val
                  ELSE tokens_db
  /\ revoked' = IF procs[p].op = "revoke" /\ procs[p].token \in DOMAIN procs[p].db
                THEN revoked \cup {procs[p].token} ELSE revoked
  /\ created' = IF procs[p].op = "create"
                THEN created \cup {procs[p].token} ELSE created
  /\ procs' = [q \in DOMAIN procs \ {p} |-> procs[q]]
  /\ UNCHANGED <<weights_file, pc, raw, arg, ret, seen, now, reports_db, supabase, outbox>>

NextRace ==
  \/ \E p \in Procs, op \in {"create", "revoke", "extend"}, token \in TokenIds :
       LoadDb(p, op, token)
  \/ \E p \in Procs : SaveDb(p)
  \/ \E token \in TokenIds : ValidateToken(token)

SpecRace == InitRace /\ [][NextRace]_vars

(***************************************************************************)
(* The /report and /ui endpoints.  A request carries its token; a POST     *)
(* carries the survey, with or without an address to mail the report to.   *)
(* What lies outside the program decides whether the PDF library, the mail *)
(* server, the Supabase POST and the write of reports_db.json succeed.     *)
(* seen counts the reports made and lists the calls of the last request,   *)
(* each with its outcome.                                                  *)
(***************************************************************************)
MaxReports == 1

Called(f, exc) == [f |-> f, exc |-> exc]

Outcomes == [pdf : {"none", "raised"}, email : {"none", "raised"},
             post : {"none", "raised"}, write : {"none", "raised"}]

AllFine == [pdf |-> "none", email |-> "none", post |-> "none", write |-> "none"]

\* report_record, lines 541-560 (532-550 of the download variant)
ReportRecord(id, built, email_sent, email_error) ==
  [id |-> id, pmf_score |-> built.pmf_score_for_display, stage |-> built.stage,
   email_sent |-> email_sent, email_error |-> email_error]

\* The payload of requests.post, lines 300-310: it leaves the mail fields out
SupabaseRow(record) ==
  [id |-> record.id, pmf_score |-> record.pmf_score, stage |-> record.stage]

ReportsCorrupt == [kind |-> "corrupt", rows |-> <<>>]

\* reports_db.json as an earlier run of the program left it
ReportsEarlier ==
  [kind |-> "list", rows |-> <<[id |-> 0, pmf_score |-> None, stage |-> StageInvalid,
                                email_sent |-> FALSE, email_error |-> "None"]>>]

\* Lines 317-328: json.load raises on a file that holds no JSON list, open
\* or json.dump may raise; the except clause logs and returns
StoredLocally(record, local, write) ==
  IF local.kind = "corrupt" \/ write = "raised" THEN local
  ELSE [kind |-> "list", rows |-> Append(local.rows, record)]

\* _store_report(report_record): what the two stores hold afterwards
_store_report(record, local, sb, env) ==
  IF sb.configured /\ env.post = "none"
  THEN [reports_db |-> local,
        supabase |-> [sb EXCEPT !.rows = Append(@, SupabaseRow(record))],
        calls |-> <<Called("requests.post", "none")>>]
  ELSE [reports_db |-> StoredLocally(record, local, env.write),
        supabase |-> sb,
        calls |-> (IF sb.configured THEN <<Called("requests.post", "raised")>> ELSE <<>>)
                  \o <<Called("json.dump",
                              IF local.kind = "corrupt" \/ env.write = "raised"
                              THEN "raised" ELSE "none")>>]

\* A handler's result: the response, the calls made, the stores afterwards
Result(response, calls, local, sb, mail) ==
  [ret |-> response, calls |-> calls, reports_db |-> local, supabase |-> sb, outbox |-> mail]

\* The tail of both generators: the record is built and handed to _store_report
Stored(record, stored, calls, mail) ==
  Result([status |-> 200, pmf_score |-> record.pmf_score, stage |-> record.stage,
          email_sent |-> record.email_sent],
         calls \o <<Called("_store_report", "none")>> \o stored.calls,
         stored.reports_db, stored.supabase, mail)

\* _generate_report_and_optionally_store(raw), built = _build_pmf_pdf_data(raw)
_generate_report_and_optionally_store(built, to_email, env, id, local, sb, mail) ==
  IF built.exc /= "none"
  THEN Result([status |-> 500], <<Called("_build_pmf_pdf_data", built.exc)>>, local, sb, mail)
  ELSE IF env.pdf /= "none"
  THEN Result([status |-> 500],
              <<Called("_build_pmf_pdf_data", "none"), Called("generate_pmf_report_v2", "raised")>>,
              local, sb, mail)
  ELSE IF ~to_email
  THEN Stored(ReportRecord(id, built, FALSE, "None"),
              _store_report(ReportRecord(id, built, FALSE, "None"), local, sb, env),
              <<Called("_build_pmf_pdf_data", "none"), Called("generate_pmf_report_v2", "none")>>,
              mail)
  ELSE Stored(ReportRecord(id, built, env.email = "none",
                           IF env.email = "none" THEN "None" ELSE "str(e)"),
              _store_report(ReportRecord(id, built, env.email = "none",
                                         IF env.email = "none" THEN "None" ELSE "str(e)"),
                            local, sb, env),
              <<Called("_build_pmf_pdf_data", "none"), Called("generate_pmf_report_v2", "none"),
                Called("send_pmf_report_email", env.email)>>,
              IF env.email = "none" THEN Append(mail, id) ELSE mail)

\* _generate_report_for_download(raw): no mail
_generate_report_for_download(built, env, id, local, sb, mail) ==
  IF built.exc /= "none"
  THEN Result([status |-> 500], <<Called("_build_pmf_pdf_data", built.exc)>>, local, sb, mail)
  ELSE IF env.pdf /= "none"
  THEN Result([status |-> 500],
              <<Called("_build_pmf_pdf_data", "none"), Called("generate_pmf_report_v2", "raised")>>,
              local, sb, mail)
  ELSE Stored(ReportRecord(id, built, FALSE, "download_only"),
              _store_report(ReportRecord(id, built, FALSE, "download_only"), local, sb, env),
              <<Called("_build_pmf_pdf_data", "none"), Called("generate_pmf_report_v2", "none")>>,
              mail)

\* The 403 of both endpoints
Forbidden(info) == [status |-> 403, error |-> "token_invalid", detail |-> info.error]

\* report(): the token first, then the method
reportUngated(check, method, built, to_email, env, id, local, sb, mail) ==
  IF method = "GET" THEN Result([status |-> 200], <<>>, local, sb, mail)
  ELSE IF check.ok
  THEN _generate_report_and_optionally_store(built, to_email, env, id, local, sb, mail)
  ELSE [_generate_report_and_optionally_store(built, to_email, env, id, local, sb, mail)
          EXCEPT !.ret = Forbidden(check)]

report(check, method, built, to_email, env, id, local, sb, mail) ==
  IF ~check.ok THEN Result(Forbidden(check), <<>>, local, sb, mail)
  ELSE IF method = "GET" THEN Result([status |-> 200], <<>>, local, sb, mail)
  ELSE _generate_report_and_optionally_store(built, to_email, env, id, local, sb, mail)

\* ui_form(): the token first, then the method, then submit_mode
ui_form(check, method, mode, built, to_email, env, id, local, sb, mail) ==
  IF ~check.ok THEN Result(Forbidden(check), <<>>, local, sb, mail)
  ELSE IF method = "GET" THEN Result([status |-> 200], <<>>, local, sb, mail)
  ELSE IF mode = "download"
  THEN _generate_report_for_download(built, env, id, local, sb, mail)
  ELSE _generate_report_and_optionally_store(built, to_email, env, id, local, sb, mail)

\* A DB with a token valid until day 1, a revoked one, one without expiry
\* and one whose expiry is no date; "t0" is in no DB
GateDb ==
  [t \in {"t1", "t2", "t3", "t4"} |->
     IF t = "t1" THEN TokenRecord(IsoDate(1))
     ELSE IF t = "t2" THEN RecSet(TokenRecord(IsoDate(MaxDay + 1)), "active", FALSE)
     ELSE IF t = "t3" THEN NoExpiryRecord
     ELSE BadExpiryRecord]

RequestTokens == {"", "t0", "t1", "t2", "t3", "t4"}

ServiceSurveys ==
  {EmptySurvey,
   Survey(TxtRich, TxtPlain, TextFill(2, 9, 0), NumForm),
   Survey(PyInt(7), None, TextFill(0, 0, 0), NumNone)}

\* Every survey with its _build_pmf_pdf_data(raw), weights.json absent as it
\* is throughout this specification
Submissions ==
  {[raw |-> r, built |-> _build_pmf_pdf_data(r, FileAbsent)] : r \in ServiceSurveys}

\* The outcomes that a request can meet: none in a request that is turned
\* away or that is a GET, no mail without an address, no POST without
\* Supabase, nothing after a PDF that failed
Meets(env, to_email, method, token) ==
  /\ method = "GET" \/ ~validate_token_simple(token, tokens_db, now).ok => env = AllFine
  /\ env.email = "raised" => to_email
  /\ env.post = "raised" => supabase.configured
  /\ env.pdf = "raised" => env.email = "none" /\ env.post = "none" /\ env.write = "none"

\* A GET carries no survey, no address and no submit_mode
Bodies(method)    == IF method = "GET" THEN {r \in Submissions : r.raw = EmptySurvey}
                     ELSE Submissions
Addresses(method) == IF method = "GET" THEN {FALSE} ELSE BOOLEAN
Modes(method)     == IF method = "GET" THEN {"view"} ELSE {"view", "download"}

InitService ==
  /\ weights_file = FileAbsent
  /\ pc = "idle"
  /\ raw = EmptySurvey
  /\ arg = NoArg
  /\ ret = NoRet
  /\ seen = [served |-> 0, calls |-> <<>>]
  /\ tokens_db = GateDb
  /\ now = 0
  /\ procs = <<>>
  /\ revoked = {"t2"}
  /\ created = {"t1", "t2"}
  /\ reports_db \in {ReportsAbsent, ReportsCorrupt, ReportsEarlier}
  /\ supabase \in {[configured |-> c, rows |-> <<>>] : c \in BOOLEAN}
  /\ outbox = <<>>

\* The state after a handler returned out; a POST that passed the token check
\* has made a report, or raised on the way
Served(out, submitted) ==
  /\ ret' = out.ret
  /\ seen' = [served |-> IF submitted THEN seen.served + 1 ELSE seen.served,
              calls |-> out.calls]
  /\ reports_db' = out.reports_db
  /\ supabase' = out.supabase
  /\ outbox' = out.outbox
  /\ UNCHANGED <<weights_file, pc, raw, tokens_db, now, procs, revoked, created>>

\* GET or POST /report
Report(method, token, r, to_email, env) ==
  /\ pc = "idle"
  /\ method = "POST" /\ validate_token_simple(token, tokens_db, now).ok
       => seen.served < MaxReports
  /\ Meets(env, to_email, method, token)
  /\ arg' = [fn |-> "report", method |-> method, token |-> token]
  /\ Served(report(_require_valid_token_or_403(token, tokens_db, now), method,
                   r.built, to_email, env,
                   seen.served + 1, reports_db, supabase, outbox),
            method = "POST" /\ validate_token_simple(token, tokens_db, now).ok)

\* GET or POST /ui
UiForm(method, mode, token, r, to_email, env) ==
  /\ pc = "idle"
  /\ method = "POST" /\ validate_token_simple(token, tokens_db, now).ok
       => seen.served < MaxReports
  /\ Meets(env, to_email, method, token)
  /\ arg' = [fn |-> "ui_form", method |-> method, token |-> token, mode |-> mode]
  /\ Served(ui_form(_require_valid_token_or_403(token, tokens_db, now), method, mode,
                    r.built, to_email, env,
                    seen.served + 1, reports_db, supabase, outbox),
            method = "POST" /\ validate_token_simple(token, tokens_db, now).ok)

\* The endpoints under every token and the clock, everything outside the
\* program working
NextService ==
  \/ \E method \in {"GET", "POST"}, token \in RequestTokens :
       \E r \in Bodies(method), to_email \in Addresses(method) :
         Report(method, token, r, to_email, AllFine)
  \/ \E method \in {"GET", "POST"}, token \in RequestTokens :
       \E mode \in Modes(method), r \in Bodies(method), to_email \in Addresses(method) :
         UiForm(method, mode, token, r, to_email, AllFine)
  \/ Tick

SpecService == InitService /\ [][NextService]_vars

\* Submissions under a valid token and a revoked one, whatever outside the
\* program fails
NextStore ==
  \/ \E token \in {"t1", "t2"}, r \in Submissions, to_email \in BOOLEAN :
       \E env \in Outcomes : Report("POST", token, r, to_email, env)
  \/ \E token \in {"t1", "t2"}, mode \in {"view", "download"}, r \in Submissions,
        to_email \in BOOLEAN :
       \E env \in Outcomes : UiForm("POST", mode, token, r, to_email, env)

SpecStore == InitService /\ [][NextStore]_vars

(***************************************************************************)
(* The claims                                                              *)
(***************************************************************************)
Built == pc = "built"

\* d1 <= d2 for displayed scores, a suppressed score (None) the lowest
DisplayLe(d1, d2) == d1 = None \/ (d2 /= None /\ FLe(d1.f, d2.f))

\* C1: the displayed score never exceeds the ceiling of the quality score q:
\* it is None when q < 20, at most min(s, 20.0) when 20 <= q < 40 and at most
\* min(s, 35.0) when 40 <= q < 60, s the raw composite score.
C1_DisplayWithinCeiling ==
  Built =>
    LET q == ret.data_quality_score
        s == ret.pmf_score_raw.f
        d == ret.pmf_score_for_display
    IN  /\ q < 20 => d = None
        /\ (20 <= q /\ q < 40) => DisplayLe(d, PyFloat(FMin(s, F(20))))
        /\ (40 <= q /\ q < 60) => DisplayLe(d, PyFloat(FMin(s, F(35))))

\* C2 as stated: the mode is invalid exactly when q < 20, reference exactly
\* when 20 <= q < 60, normal exactly when q >= 60.
C2_ModeCutpoints20 ==
  Built =>
    LET q == ret.data_quality_score
    IN  /\ ret.pmf_score_mode = "invalid"   <=> q < 20
        /\ ret.pmf_score_mode = "reference" <=> (20 <= q /\ q < 60)
        /\ ret.pmf_score_mode = "normal"    <=> q >= 60

\* C2 amended: the mode is decided by the quality score q alone, invalid
\* exactly when q < 25, reference exactly when 25 <= q < 60, normal exactly
\* when q >= 60.
C2_ModeCutpoints25 ==
  Built =>
    LET q == ret.data_quality_score
    IN  /\ ret.pmf_score_mode = "invalid"   <=> q < 25
        /\ ret.pmf_score_mode = "reference" <=> (25 <= q /\ q < 60)
        /\ ret.pmf_score_mode = "normal"    <=> q >= 60

\* A request of quality 20..24 was answered in mode invalid
C2_Witness ==
  /\ Built
  /\ ret.data_quality_score \in 20..24
  /\ ret.pmf_score_mode = "invalid"

\* C3: when q >= 60 the mode is normal, the displayed score is the raw
\* composite score, the displayed stage is the stage of that score and the
\* note is empty.
C3_NormalShowsRaw ==
  (Built /\ ret.data_quality_score >= 60) =>
    /\ ret.pmf_score_mode = "normal"
    /\ ret.pmf_score_for_display = ret.pmf_score_raw
    /\ ret.stage = StageOf(ret.pmf_score_raw.f)
    /\ ret.pmf_score_note = ""

\* A request of quality 60 or more was answered with a score above 60
C3_Witness ==
  /\ Built
  /\ ret.data_quality_score >= 60
  /\ ret.pmf_score_for_display /= None
  /\ FGt(ret.pmf_score_for_display.f, F(60))

\* The run before (seen) and this run (ret) had the same component scores and
\* qualities q1 < q2 < 60
TwoRuns ==
  /\ Built
  /\ seen /= NoRet
  /\ seen.comps = ret.comps
  /\ seen.data_quality_score < ret.data_quality_score
  /\ ret.data_quality_score < 60

\* C4: of two runs with the same component scores and qualities q1 < q2 < 60,
\* the first displays no more than the second, a suppressed score the lowest.
C4_DisplayMonotone ==
  TwoRuns => DisplayLe(seen.pmf_score_for_display, ret.pmf_score_for_display)

\* Two such runs, the first suppressed and the second shown
C4_Witness ==
  /\ TwoRuns
  /\ seen.pmf_score_for_display = None
  /\ ret.pmf_score_for_display /= None

\* C5: no exception escapes the scoring core, whatever the fields hold.
C5_NoExceptionEscapes == pc /= "raised"

Returned == pc = "returned"

\* C6: build_scores_from_raw never raises on a non-numeric value in a numeric
\* field (here: on any survey whose problem is text or absent, so that only
\* the numeric fields can make it raise).
C6_NumericFieldsNeverRaise ==
  (Returned /\ Get(raw, "problem").t \in {"None", "str"}) => ret.exc = "none"

\* 0 <= v <= 100 for a number v
InRange(v) ==
  CASE v.t = "int"   -> 0 <= v.i /\ v.i <= 100
    [] v.t = "float" -> FLe(FZero, v.f) /\ FLe(v.f, F(100))
    [] OTHER         -> FALSE

\* C7: whenever build_scores_from_raw returns, the result has exactly the five
\* keys and every value lies in [0, 100].
C7_FiveScoresInRange ==
  (Returned /\ ret.exc = "none") =>
    /\ DOMAIN ret.val = Range(ScoreKeys)
    /\ \A k \in DOMAIN ret.val : InRange(ret.val[k])

\* It returned on a retention of 150, clamped to 100.0
C7_Witness ==
  /\ Returned
  /\ ret.exc = "none"
  /\ Get(raw, "day7_retention") = PyInt(150)
  /\ ret.val["retention_score"] = PyFloat(F(100))

\* C8: the adjusted score does not decrease as the quality grows below 60,
\* and stays below 40 while the quality is below 60.
C8_AdjustMonotone ==
  (Returned /\ IsNumber(arg.a.raw_score) /\ arg.a.quality_score /= None
     /\ arg.a.quality_score.i \in 0..59) =>
    /\ FLt(ret.val.score.f, F(40))
    /\ \A q2 \in (arg.a.quality_score.i + 1)..59 :
         FLe(ret.val.score.f,
             _adjust_pmf_score(arg.a.raw_score, arg.a.raw_stage, PyInt(q2)).score.f)

\* The file holds a table of numbers, each above 0
PositiveWeights(file) ==
  /\ file.kind = "dict"
  /\ file.w /= <<>>
  /\ \A i \in 1..Len(file.w) :
       IsNumber(file.w[i].v) /\ FGt(float(file.w[i].v).val, FZero)

\* sum(weights.values()) of a table load_weights returned
SumOf(weights) ==
  float(PySum([i \in 1..Len(weights) |-> Item(weights[i].k, PyFloat(weights[i].v))]).val).val

\* 2^-49
Tolerance == [F(1) EXCEPT !.e = @ - 49]

\* C9 as stated: the weights returned for a file of positive weights sum to
\* exactly 1.0.
C9_SumExactlyOne ==
  (Returned /\ PositiveWeights(weights_file)) => SumOf(ret.val) = F(1)

\* C9 amended: the weights returned for a file of up to five positive weights
\* sum to 1.0 within 2^-49 (the rounding of the divisions and of the sum), not
\* always to exactly 1.0.
C9_SumNearOne ==
  (Returned /\ PositiveWeights(weights_file)) =>
    /\ Len(ret.val) = Len(weights_file.w)
    /\ FLe(FSub(SumOf(ret.val), F(1)), Tolerance)
    /\ FLe(FSub(F(1), SumOf(ret.val)), Tolerance)

\* The weights returned for a file of five positive weights do not sum to 1.0
C9_Witness ==
  /\ Returned
  /\ PositiveWeights(weights_file)
  /\ Len(ret.val) = 5
  /\ SumOf(ret.val) /= F(1)

\* The weights of the file sum to 0 or less
NonPositiveTotal(file) ==
  /\ file.kind = "dict"
  /\ PySum(file.w).exc = "none"
  /\ FLe(float(PySum(file.w).val).val, FZero)

\* C10: load_weights returns the default table when the file is absent,
\* unreadable or corrupt, or when its weights sum to 0 or less.
C10_DefaultTable ==
  (Returned /\ (weights_file.kind \in {"absent", "unreadable", "corrupt"}
                  \/ NonPositiveTotal(weights_file))) =>
    ret = Ok(DEFAULT_WEIGHTS)

\* The default table was returned for weights that sum to less than 0
C10_Witness ==
  /\ Returned
  /\ NonPositiveTotal(weights_file)
  /\ float(PySum(weights_file.w).val).val /= FZero
  /\ ret = Ok(DEFAULT_WEIGHTS)

\* The table calculate_pmf_score used has the five component keys, each with
\* a weight of 0 or more
FiveNonNegative(weights) ==
  /\ {weights[i].k : i \in 1..Len(weights)} = Range(ScoreKeys)
  /\ Len(weights) = 5
  /\ \A i \in 1..Len(weights) : FGe(weights[i].v, FZero)

\* C11: on every component map and every table load_weights can return, the
\* composite score calculate_pmf_score returns lies in [0, 100] and the table
\* it used has the five component keys with weights of 0 or more.
C11_ScoreAndTableInRange ==
  Returned =>
    /\ FLe(FZero, ret.val.score) /\ FLe(ret.val.score, F(100))
    /\ FiveNonNegative(load_weights(weights_file))

\* C12: the stage is decided by the composite score rounded to one decimal,
\* each threshold an inclusive upper bound: at most 40.0 is Problem Discovery,
\* above 40.0 up to 60.0 Problem/Solution Fit, above 60.0 up to 80.0
\* Product/Market Fit (In Progress), above 80.0 PMF Achieved (the score counted
\* here in tenths).
C12_StageThresholds ==
  Returned =>
    LET tenths == FRoundTenths(ret.val.score)
    IN  /\ ret.val.score = FDec(tenths, 10)
        /\ ret.val.stage =
             (IF tenths <= 400 THEN "Problem Discovery"
              ELSE IF tenths <= 600 THEN "Problem/Solution Fit"
              ELSE IF tenths <= 800 THEN "Product/Market Fit (In Progress)"
              ELSE "PMF Achieved")

\* A score of exactly 60.0 was staged Problem/Solution Fit
C12_Witness ==
  /\ Returned
  /\ ret.val.score = F(60)
  /\ ret.val.stage = "Problem/Solution Fit"

\* The number a component value counts as: float(v or 0)
NumOf(v) == float(Or(v, PyInt(0))).val

\* C13: with the weight table and the other components fixed, the composite
\* score does not decrease when one component score is raised.
C13_Monotone ==
  Returned =>
    \A k \in DOMAIN arg.a : \A v \in CompValues :
      FLt(NumOf(arg.a[k]), NumOf(v)) =>
        FLe(ret.val.score,
            calculate_pmf_score([arg.a EXCEPT ![k] = v], weights_file).score)

\* The text fields of the request that are not empty once stripped, those of
\* 60 characters or more, and those of 4 characters or fewer or on the stoplist
NonemptyKeys ==
  {k \in Range(text_keys) : StripText(Get(raw, k)).val /= <<>>}

RichKeys == {k \in NonemptyKeys : Len(StripText(Get(raw, k)).val) >= 60}

GarbageKeys ==
  {k \in NonemptyKeys :
     \/ Len(StripText(Get(raw, k)).val) <= 4
     \/ Lower(StripText(Get(raw, k)).val) \in Stoplist}

\* C14: the quality score is an integer of 0..100, the integer nearest to
\* 100 * (0.6 * n/22 + 0.4 * r/22) * (1 - 0.7 * g/max(n, 1)), where of the 22
\* text fields n are non-empty once stripped, r of these have 60 characters or
\* more and g of these have 4 characters or fewer or are a stoplist token
\* (compared in lower case); empty and whitespace-only fields count for
\* nothing.  In whole numbers: the value is (60n + 40r)(10n - 7g) / (220n).
C14_QualityFormula ==
  Built =>
    LET n == Cardinality(NonemptyKeys)
        r == Cardinality(RichKeys)
        g == Cardinality(GarbageKeys)
        q == ret.data_quality_score
    IN  /\ q \in 0..100
        /\ n = 0 => q = 0
        /\ n > 0 =>
             /\ 220 * n * q - (60 * n + 40 * r) * (10 * n - 7 * g) <= 110 * n
             /\ (60 * n + 40 * r) * (10 * n - 7 * g) - 220 * n * q <= 110 * n

\* A request with rich, plain, short and blank fields was scored: 100 *
\* (0.6 * 5/22 + 0.4 * 1/22) * (1 - 0.7 * 1/5) = 13.29..., so 13
C14_Witness ==
  /\ Built
  /\ Cardinality(NonemptyKeys) = 5
  /\ Cardinality(RichKeys) = 1
  /\ Cardinality(GarbageKeys) = 1
  /\ \E k \in Range(text_keys) :
       Get(raw, k) /= None /\ Get(raw, k).t = "str" /\ Get(raw, k).c /= <<>>
         /\ k \notin NonemptyKeys
  /\ ret.data_quality_score = 13

\* C15: the quality label is decided by the quality score alone: very low for
\* a score of 0..24, medium for 25..59, high for 60..100.
C15_LabelFromScore ==
  Built =>
    /\ ret.data_quality_label = "very_low" <=> ret.data_quality_score \in 0..24
    /\ ret.data_quality_label = "medium"   <=> ret.data_quality_score \in 25..59
    /\ ret.data_quality_label = "high"     <=> ret.data_quality_score \in 60..100

\* A quality score of exactly 25 was labelled medium
C15_Witness ==
  /\ Built
  /\ ret.data_quality_score = 25
  /\ ret.data_quality_label = "medium"

\* The fallback component scores: problem 35, persona 30, solution 50,
\* market 40, retention 40
FallbackScores ==
  [k \in Range(ScoreKeys) |->
     PyInt(CASE k = "problem_score"   -> 35
             [] k = "persona_score"   -> 30
             [] k = "solution_score"  -> 50
             [] k = "market_score"    -> 40
             [] k = "retention_score" -> 40)]

\* A request with every field empty was answered, weights.json absent
EmptyBuilt == Built /\ raw = EmptySurvey /\ weights_file = FileAbsent

\* C16 as stated: every field empty gives the component scores 35, 30, 50, 40,
\* 40, a composite score of about 38.25 (38.2 or 38.3 to one decimal) under the
\* default weights, the stage Problem Discovery, the quality score 0, the mode
\* invalid and no displayed score.
C16_EmptyInput3825 ==
  EmptyBuilt =>
    /\ ret.comps = FallbackScores
    /\ FRoundTenths(ret.pmf_score_raw.f) \in {382, 383}
    /\ ret.validation_stage_raw = "Problem Discovery"
    /\ ret.data_quality_score = 0
    /\ ret.pmf_score_mode = "invalid"
    /\ ret.pmf_score_for_display = None

\* C16 amended: every field empty gives the component scores 35, 30, 50, 40,
\* 40, a composite score of 40.5 under the default weights (0.20 * 35 + 0.10 *
\* 30 + 0.25 * 50 + 0.25 * 40 + 0.20 * 40), hence the stage Problem/Solution
\* Fit, the quality score 0, the mode invalid and no displayed score.
C16_EmptyInput405 ==
  EmptyBuilt =>
    /\ ret.comps = FallbackScores
    /\ ret.pmf_score_raw = PyFloat(FDec(405, 10))
    /\ ret.validation_stage_raw = "Problem/Solution Fit"
    /\ ret.data_quality_score = 0
    /\ ret.pmf_score_mode = "invalid"
    /\ ret.pmf_score_for_display = None

\* The empty request was answered: no displayed score, raw score above 40
C16_Witness ==
  /\ EmptyBuilt
  /\ ret.pmf_score_for_display = None
  /\ FGt(ret.pmf_score_raw.f, F(40))

\* The example request was scored by the engine, weights.json absent
ExampleScored == pc = "scored" /\ raw = ExampleSurvey /\ weights_file = FileAbsent

\* The component scores of the example other than the solution score
ExampleComponents(comps) ==
  /\ comps["problem_score"] = PyInt(90)
  /\ comps["persona_score"] = PyInt(85)
  /\ comps["market_score"] = PyInt(90)
  /\ comps["retention_score"] = PyFloat(F(45))

\* C17 as stated: the example request gives the component scores problem 90,
\* persona 85, solution about 71.5, market 90, retention 45, a composite score
\* of about 76.6 under the default weights (both to one decimal) and the stage
\* Product/Market Fit (In Progress).
C17_Example766 ==
  ExampleScored =>
    /\ ExampleComponents(ret.val.comps)
    /\ FRoundTenths(NumOf(ret.val.comps["solution_score"])) = 715
    /\ FRoundTenths(ret.val.score) = 766
    /\ ret.val.stage = "Product/Market Fit (In Progress)"

\* C17 amended: the example request gives the component scores problem 90,
\* persona 85, solution 75.0 (55 % lies on the last piece of the curve: 60 +
\* (55 - 40) * 1.0), market 90, retention 45.0, a composite score of 76.8
\* under the default weights (the sum 76.75 rounded to one decimal) and the
\* stage Product/Market Fit (In Progress).
C17_Example768 ==
  ExampleScored =>
    /\ ExampleComponents(ret.val.comps)
    /\ ret.val.comps["solution_score"] = PyFloat(F(75))
    /\ ret.val.score = FDec(768, 10)
    /\ ret.val.stage = "Product/Market Fit (In Progress)"

\* The example request was scored, its solution score above 71.5
C17_Witness ==
  /\ ExampleScored
  /\ FGt(NumOf(ret.val.comps["solution_score"]), FDec(715, 10))
  /\ ret.val.stage = "Product/Market Fit (In Progress)"

\* The request being answered is the one remembered
Repeated == pc \in {"built", "raised"} /\ seen /= NoRet /\ seen.raw = raw

ProbeScore(file) ==
  IF file = FileAbsent THEN F(55)
  ELSE IF file = SolutionOnly THEN F(100)
  ELSE F(50)

SameText(r1, r2) == \A k \in Range(text_keys) : Get(r1, k) = Get(r2, k)

\* The request being answered has the text of the one remembered, both answered
SameTextBuilt ==
  /\ pc = "built"
  /\ seen /= NoRet
  /\ seen.ret.exc = "none"
  /\ SameText(seen.raw, raw)

\* C20: the quality score and label depend on the text fields only: two
\* requests with the same text get the same quality score and label, whatever
\* their numeric fields, composite scores and stages.
C20_QualityFromTextOnly ==
  SameTextBuilt =>
    /\ ret.data_quality_score = seen.ret.data_quality_score
    /\ ret.data_quality_label = seen.ret.data_quality_label

\* Two requests with the same text and other numbers were answered: another
\* composite score, the same quality
C20_Witness ==
  /\ SameTextBuilt
  /\ seen.raw /= raw
  /\ ret.pmf_score_raw /= seen.ret.pmf_score_raw
  /\ ret.data_quality_score = seen.ret.data_quality_score
  /\ ret.data_quality_score > 0

\* C21: when the raw score does not parse as a number, the display decision
\* is made without raising and carries no number as the score: the value
\* handed in comes back as it is, with the stage handed in.
C21_UnparseableScore ==
  (Returned /\ float(arg.a.raw_score).exc /= "none") =>
    /\ ret.exc = "none"
    /\ ~IsNumber(ret.val.score)
    /\ ret.val.score = arg.a.raw_score
    /\ ret.val.stage = arg.a.raw_stage

\* The score "n/a" came back as it is, on a quality for which a number would
\* have come back as 5.0
C21_Witness ==
  /\ Returned
  /\ arg.a.raw_score = Str3("n", "/", "a")
  /\ arg.a.quality_score = PyInt(10)
  /\ ret.val.score = Str3("n", "/", "a")

\* The weight a table gives to key k
WeightOf(weights, k) ==
  weights[CHOOSE i \in 1..Len(weights) : weights[i].k = k].v

\* The sum of weight[k] * clamp(component[k], 0, 100) over the five component
\* keys from the i-th on, a component that is missing counting as 0
RECURSIVE SumOverKeys(_, _, _, _)
SumOverKeys(weights, comps, i, total) ==
  IF i > Len(ScoreKeys) THEN total
  ELSE SumOverKeys(weights, comps, i + 1,
         FAdd(total,
              FMul(WeightOf(weights, ScoreKeys[i]),
                   FMax(FZero, FMin(F(100), NumOf(Get(comps, ScoreKeys[i])))))))

\* C22: the score is the sum over the five component keys of weight[k] *
\* clamp(component[k], 0, 100), rounded to one decimal, a missing component
\* counting as 0; each of the five keys has its weight in the table used,
\* whatever table load_weights returned.
C22_SumOverFiveKeys ==
  Returned =>
    /\ \A k \in Range(ScoreKeys) :
         \E i \in 1..Len(load_weights(weights_file)) : load_weights(weights_file)[i].k = k
    /\ ret.val.score = FRound1(SumOverKeys(load_weights(weights_file), arg.a, 1, FZero))

\* The value parses as a number
Parses(v) == v /= None /\ float(v).exc = "none"

\* C23: the solution score follows a strict order: the Sean Ellis answer, when
\* present, decides alone (NPS and positive comments are not looked at); else
\* the NPS, when it is a number, gives (nps + 100) / 2 clamped to [0, 100];
\* else 75 for 5 positive comments or more and 50 otherwise.
C23_SolutionPriority ==
  (Returned /\ ret.exc = "none") =>
    LET sean == Get(raw, "very_disappointed_percent")
        nps  == Get(raw, "nps")
        sol  == ret.val["solution_score"]
    IN  /\ sean /= None =>
             Parses(sean) /\ sol = PyFloat(SeanEllisCurve(float(sean).val))
        /\ (sean = None /\ Parses(nps)) =>
             sol = PyFloat(FMax(FZero, FMin(F(100),
                             FDiv(FAdd(float(nps).val, F(100)), F(2)))))
        /\ (sean = None /\ ~Parses(nps)) =>
             sol = PyInt(IF int(Or(Get(raw, "positive_comments"), PyInt(0))).val >= 5
                         THEN 75 ELSE 50)

\* 55 % very disappointed decided alone, an NPS of 9 not looked at
C23_Witness ==
  /\ Returned
  /\ ret.exc = "none"
  /\ Get(raw, "very_disappointed_percent") = PyInt(55)
  /\ Get(raw, "nps") = PyInt(9)
  /\ ret.val["solution_score"] = PyFloat(F(75))

\* A float counted in hundredths and in thousandths, to the nearest
Hundredths(x)  == IF x.s = 1 THEN -RoundScaled(x, 100) ELSE RoundScaled(x, 100)
Thousandths(x) == IF x.s = 1 THEN -RoundScaled(x, 1000) ELSE RoundScaled(x, 1000)

\* The curve in whole numbers, x in hundredths and the value in thousandths:
\* as stated, the last piece 60 + (x - 40) up to x = 100
CurveAsStated(x) ==
  IF x <= 0 THEN 0
  ELSE IF x < 2000 THEN 12 * x
  ELSE IF x < 4000 THEN 24000 + 18 * (x - 2000)
  ELSE IF x < 10000 THEN 60000 + 10 * (x - 4000)
  ELSE 100000

\* The same with the last piece cut at 100, which it reaches at x = 80
CurveCut(x) ==
  IF x <= 0 THEN 0
  ELSE IF x < 2000 THEN 12 * x
  ELSE IF x < 4000 THEN 24000 + 18 * (x - 2000)
  ELSE IF x < 8000 THEN 60000 + 10 * (x - 4000)
  ELSE 100000

\* C24 as stated: map_sean_ellis_to_score maps x to 0 for x <= 0, 1.2 * x for
\* 0 < x < 20, 24 + 1.8 * (x - 20) for 20 <= x < 40, 60 + (x - 40) for 40 <=
\* x < 100 and 100 for x >= 100 (to the thousandth, x a number of hundredths);
\* the result lies in [0, 100] and is 24 at x = 20 and 60 at x = 40.
C24_CurveTo100 ==
  (Returned /\ ret.exc = "none" /\ arg.a /= None) =>
    LET x == Hundredths(float(arg.a).val)
        y == ret.val.f
    IN  /\ Thousandths(y) = CurveAsStated(x)
        /\ FLe(FZero, y) /\ FLe(y, F(100))
        /\ x = 2000 => y = F(24)
        /\ x = 4000 => y = F(60)

\* C24 amended: the last piece is min(100, 60 + (x - 40)): 60 + (x - 40) for
\* 40 <= x < 80 and 100 for x >= 80; the other pieces, the range [0, 100] and
\* the values 24 at x = 20 and 60 at x = 40 are as stated.
C24_CurveCutAt80 ==
  (Returned /\ ret.exc = "none" /\ arg.a /= None) =>
    LET x == Hundredths(float(arg.a).val)
        y == ret.val.f
    IN  /\ Thousandths(y) = CurveCut(x)
        /\ FLe(FZero, y) /\ FLe(y, F(100))
        /\ x = 2000 => y = F(24)
        /\ x = 4000 => y = F(60)

\* An answer of 90 % was mapped to 100, not to 60 + (90 - 40) = 110
C24_Witness ==
  /\ Returned
  /\ arg.a = PyInt(90)
  /\ ret = Ok(PyFloat(F(100)))

\* A value in hundredths read as a percentage: times 100 when it is 1 or less
PercentOf(x) == IF x <= 100 THEN 100 * x ELSE x

\* C25: the retention score follows a strict order: the day 7 retention, when
\* present, gives its value (times 100 when it is 1 or less) clamped to
\* [0, 100], and the DAU/MAU ratio is not looked at; else the DAU/MAU ratio
\* gives its value (times 100 when it is 1 or less) times 0.8, clamped to
\* [0, 100]; else 40.  A field that does not parse gives 40.  (Values in
\* hundredths, scores in thousandths.)
C25_RetentionPriority ==
  (Returned /\ ret.exc = "none") =>
    LET day7    == Get(raw, "day7_retention")
        dau_mau == Get(raw, "dau_mau")
        r       == ret.val["retention_score"]
    IN  /\ Parses(day7) =>
             /\ r.t = "float"
             /\ Thousandths(r.f) =
                  Max(0, Min(100000, 10 * PercentOf(Hundredths(float(day7).val))))
        /\ (day7 /= None /\ ~Parses(day7)) => r = PyInt(40)
        /\ (day7 = None /\ Parses(dau_mau)) =>
             /\ r.t = "float"
             /\ Thousandths(r.f) =
                  Max(0, Min(100000, 8 * PercentOf(Hundredths(float(dau_mau).val))))
        /\ (day7 = None /\ ~Parses(dau_mau)) => r = PyInt(40)

\* A day 7 retention of 0.45 gave 45.0, a DAU/MAU ratio of 55 not looked at
C25_Witness ==
  /\ Returned
  /\ ret.exc = "none"
  /\ Get(raw, "day7_retention") = PyFloat(FDec(45, 100))
  /\ Get(raw, "dau_mau") = PyInt(55)
  /\ ret.val["retention_score"] = PyFloat(F(45))

\* int(raw.get(k) or 0) of a count that was read
CountOf(k) == int(Or(Get(raw, k), PyInt(0))).val

\* C26: the market score is 90 exactly when there are 20 paying customers or
\* more; else 85 exactly when there are 50 pilot users or more; else 70
\* exactly when there are 10 pilot users or more, or 10 interviews or more;
\* else 40; a count that is missing counts as 0.
C26_MarketRules ==
  (Returned /\ ret.exc = "none") =>
    LET paid   == CountOf("paid_customers")
        pilots == CountOf("pilot_users")
        talks  == CountOf("interviews_count")
        m      == ret.val["market_score"]
    IN  /\ m = PyInt(90) <=> paid >= 20
        /\ m = PyInt(85) <=> (paid < 20 /\ pilots >= 50)
        /\ m = PyInt(70) <=> (paid < 20 /\ pilots < 50 /\ (pilots >= 10 \/ talks >= 10))
        /\ m = PyInt(40) <=> (paid < 20 /\ pilots < 10 /\ talks < 10)

\* 55 paying customers gave 90, though 55 pilot users alone would give 85
C26_Witness ==
  /\ Returned
  /\ ret.exc = "none"
  /\ Get(raw, "paid_customers") = PyInt(55)
  /\ Get(raw, "pilot_users") = PyInt(55)
  /\ ret.val["market_score"] = PyInt(90)

\* C27: a token whose revoke has completed is rejected by
\* validate_token_simple in every later state, whatever create, revoke and
\* extend operations follow; an extend of a revoked token moves its expiry
\* and leaves it rejected.  (It holds of SpecTokens, where one operation
\* ends before the next begins, and not of SpecRace.)
C27_RevokedStaysRejected ==
  \A token \in revoked :
    /\ ~validate_token_simple(token, tokens_db, now).ok
    /\ arg = [fn |-> "validate_token_simple", a |-> token] => ~ret.ok

\* The token of a request is missing, unknown, revoked, without an expiry
\* that parses, or expired
InvalidAsStated(token) ==
  \/ token = ""
  \/ token \notin DOMAIN tokens_db
  \/ ~RecGet(tokens_db[token], "active", TRUE)
  \/ RecGet(tokens_db[token], "expires_at", None).t /= "date"
  \/ now > tokens_db[token].expires_at.d

\* C28: on /report and /ui a request whose token is missing, unknown,
\* revoked, without a parseable expiry, or expired is answered with 403, and
\* it scores nothing, generates no PDF, sends no mail and stores no report:
\* the handler makes none of these calls and leaves the report file, the
\* Supabase table and the mail as they were
C28_InvalidTokenNoEffect ==
  [][(arg'.fn \in {"report", "ui_form"} /\ InvalidAsStated(arg'.token))
       => /\ ret'.status = 403
          /\ seen'.calls = <<>>
          /\ UNCHANGED <<reports_db, supabase, outbox>>]_vars

\* after a report was made and mailed, a POST to /ui with the token, expired
\* since, is turned away
C28_Witness ==
  /\ arg = [fn |-> "ui_form", method |-> "POST", token |-> "t1", mode |-> "view"]
  /\ now > 1
  /\ ret = [status |-> 403, error |-> "token_invalid", detail |-> "token_expired"]
  /\ seen.served >= 1
  /\ Len(outbox) = 1

\* C29: when create, revoke and extend operations of concurrent processes
\* interleave, no completed update is lost: once no operation is in flight,
\* every token whose revoke completed is stored as inactive and every token
\* whose create completed is in the DB
C29_NoLostUpdate ==
  DOMAIN procs = {} =>
    /\ \A token \in revoked :
         token \in DOMAIN tokens_db /\ ~RecGet(tokens_db[token], "active", TRUE)
    /\ \A token \in created : token \in DOMAIN tokens_db

\* The rows of a store that hold the report id
RowsOf(rows, id) == {i \in 1..Len(rows) : rows[i].id = id}

\* The last request went through _generate_report_and_optionally_store and
\* its PDF was generated
PdfGenerated ==
  /\ arg.fn = "report" \/ (arg.fn = "ui_form" /\ arg.mode = "view")
  /\ Called("generate_pmf_report_v2", "none") \in Range(seen.calls)

EmailFailed == Called("send_pmf_report_email", "raised") \in Range(seen.calls)
PostSucceeded == Called("requests.post", "none") \in Range(seen.calls)

\* C30: for every submission processed by
\* _generate_report_and_optionally_store whose PDF is generated, the report
\* record is persisted exactly once, whether or not the mail failed: in
\* Supabase when it is configured and the POST succeeds, otherwise appended
\* to the local report file; a failed mail is recorded on the persisted
\* record as email_sent = false
C30_PersistedOnce ==
  PdfGenerated =>
    /\ Cardinality(RowsOf(supabase.rows, seen.served))
         = (IF supabase.configured /\ PostSucceeded THEN 1 ELSE 0)
    /\ Cardinality(RowsOf(reports_db.rows, seen.served))
         = (IF supabase.configured /\ PostSucceeded THEN 0 ELSE 1)
    /\ EmailFailed =>
         /\ \A i \in RowsOf(supabase.rows, seen.served) :
              "email_sent" \in DOMAIN supabase.rows[i] /\ ~supabase.rows[i].email_sent
         /\ \A i \in RowsOf(reports_db.rows, seen.served) : ~reports_db.rows[i].email_sent

=============================================================================
